---- MODULE Spec2Model ----
(***************************************************************************)
(* Model of the ZIKO backend's identity-and-verification core:             *)
(*   - cloudUtils     (src/unnamed/part_001): retryWithBackoff,            *)
(*                     isNonRetryableError, handleCloudError,              *)
(*                     executeCloudOperation                               *)
(*   - aws.js         (src/unnamed/part_000): userService                  *)
(*   - authService.js (src/services/authService.js, lines 175-744)         *)
(*   - smsService.js  (src/services/smsService.js, lines 1-241)            *)
(*   - routes/auth.js (src/routes/giftcards.js, lines 149-461)             *)
(*                                                                         *)
(* Strings whose characters the code inspects (phone numbers, e-mail       *)
(* addresses) are sequences of one-character strings.  Time is counted in  *)
(* units of five minutes.  Every asynchronous handler is cut at its await  *)
(* points; the synchronous stretch between two awaits is one action.       *)
(***************************************************************************)
EXTENDS Integers, Sequences, FiniteSets, TLC

VARIABLES
  \* ---- cloudUtils: one retry sequence
  policy,        \* the retry configuration of the running sequence
  retryPc,       \* "call" | "sleep" | "returned" | "thrown"
  attempt,       \* the loop variable of retryWithBackoff
  calls,         \* number of invocations of fn so far
  delays,        \* the delays slept so far, in ms, in order
  lastError,     \* retryWithBackoff's lastError
  surfaced,      \* the error retryWithBackoff threw
  envelope,      \* what executeCloudOperation returned
  allRetryable,  \* history: every invocation so far raised a retryable error
  \* ---- the record store and the requests in flight
  users,         \* table ziko-users: the sequence of its items (id = position)
  req,           \* req[s]: the handler running in slot s, with its locals
  \* ---- the one-time codes
  otpStore,      \* smsService otpStore: phone -> [code, expiresAt]
  resetCodeStore,\* authService.resetCodeStore: user id -> [code, expiresAt, email]
  now,           \* Date.now()
  otpPasses,     \* history: successful verifications per phone since its last OTP
  resetPasses,   \* history: accepted code checks per user since the last reset code
  \* ---- the marketplace
  listing,       \* the item of table marketplace under one listing id
  transactions,  \* the items put into table transactions
  purchase       \* purchase[c]: call c of purchaseGiftCard, with its retry state

retryVars == <<policy, retryPc, attempt, calls, delays, lastError, surfaced,
               envelope, allRetryable>>

authVars == <<users, req>>

codeVars == <<otpStore, resetCodeStore, now, otpPasses, resetPasses>>

marketVars == <<listing, transactions, purchase>>

vars == <<retryVars, authVars, codeVars, marketVars>>

(***************************************************************************)
(* Generic helpers                                                         *)
(***************************************************************************)
Min(a, b) == IF a <= b THEN a ELSE b

RECURSIVE Pow(_, _)
Pow(b, n) == IF n = 0 THEN 1 ELSE b * Pow(b, n - 1)

NonDecreasing(s) == \A i \in 1..(Len(s) - 1) : s[i] <= s[i + 1]

(***************************************************************************)
(* cloudUtils: errors                                                      *)
(* An error is its name and its message; of the message only the           *)
(* substrings the code tests with includes() matter, so a message is the   *)
(* set of those fragments it contains (hasMessage = FALSE: no message).    *)
(***************************************************************************)
ErrorNames ==
  {"UnauthorizedOperation", "InvalidUserID.NotFound", "ValidationException",
   "ResourceNotFoundException", "ConditionalCheckFailedException",
   "NetworkError", "ThrottlingException", "Error"}

Fragments ==
  {"Unauthorized", "InvalidParameterValue", "does not exist", "network", "timeout"}

Errors ==
  [name : ErrorNames, hasMessage : {TRUE}, fragments : {{}} \cup {{f} : f \in Fragments}]
    \cup [name : ErrorNames, hasMessage : {FALSE}, fragments : {{}}]

NoError == [name |-> "none", hasMessage |-> FALSE, fragments |-> {}]

\* error.message?.includes(s)
MessageIncludes(e, s) == e.hasMessage /\ s \in e.fragments

\* A classifier that forgets the not-found family.
isNonRetryableErrorNoNotFound(error) ==
  \/ error.name = "UnauthorizedOperation"
  \/ error.name = "InvalidUserID.NotFound"
  \/ MessageIncludes(error, "Unauthorized")
  \/ error.name = "ValidationException"
  \/ MessageIncludes(error, "InvalidParameterValue")

isNonRetryableError(error) ==
  \/ error.name = "UnauthorizedOperation"
  \/ error.name = "InvalidUserID.NotFound"
  \/ MessageIncludes(error, "Unauthorized")
  \/ error.name = "ValidationException"
  \/ MessageIncludes(error, "InvalidParameterValue")
  \/ error.name = "ResourceNotFoundException"
  \/ MessageIncludes(error, "does not exist")

handleCloudError(error) ==
  [success |-> FALSE,
   error |->
     IF error.name = "NetworkError" \/ MessageIncludes(error, "network")
       THEN "Network connection error. Please check your internet connection."
     ELSE IF error.name = "UnauthorizedOperation"
       THEN "Authentication error. Please log in again."
     ELSE IF error.name = "ValidationException"
       THEN "Invalid data provided. Please check your input."
     ELSE IF error.name = "ResourceNotFoundException"
       THEN "Resource not found. It may have been deleted."
     ELSE IF error.name = "ConditionalCheckFailedException"
       THEN "Operation failed due to a conflict. Please try again."
     ELSE IF MessageIncludes(error, "timeout")
       THEN "Request timed out. Please try again."
     ELSE "An unexpected error occurred",
   originalError |-> error]

SuccessEnvelope == [success |-> TRUE, error |-> "", originalError |-> NoError]
NoEnvelope == [success |-> FALSE, error |-> "pending", originalError |-> NoError]

(***************************************************************************)
(* cloudUtils: retry policies                                              *)
(***************************************************************************)
RETRY_CONFIG ==
  [maxRetries |-> 3, baseDelay |-> 1000, maxDelay |-> 10000, backoffMultiplier |-> 2]

MaxRetriesBound == 3

\* Every caller in the repository passes no retryConfig, so RETRY_CONFIG is the
\* policy the program runs with; the others exercise the cap and the loop bound.
Policies ==
  {RETRY_CONFIG} \cup
  [maxRetries : 0..MaxRetriesBound, baseDelay : {1000, 4000},
   maxDelay : {3000, 10000}, backoffMultiplier : {1, 2, 3}]

\* A backoff that forgets the cap.
BackoffDelayUncapped(p, n) == p.baseDelay * Pow(p.backoffMultiplier, n)

\* A backoff that raises the multiplier to the number of the next attempt.
BackoffDelayNextAttempt(p, n) ==
  Min(p.baseDelay * Pow(p.backoffMultiplier, n + 1), p.maxDelay)

\* Math.min(baseDelay * Math.pow(backoffMultiplier, attempt), maxDelay)
BackoffDelay(p, n) == Min(p.baseDelay * Pow(p.backoffMultiplier, n), p.maxDelay)

(***************************************************************************)
(* cloudUtils: retryWithBackoff inside executeCloudOperation               *)
(***************************************************************************)
RetryInit ==
  /\ policy \in Policies
  /\ retryPc = "call"
  /\ attempt = 0
  /\ calls = 0
  /\ delays = <<>>
  /\ lastError = NoError
  /\ surfaced = NoError
  /\ envelope = NoEnvelope
  /\ allRetryable = TRUE

\* fn() returns: retryWithBackoff returns, executeCloudOperation wraps the result.
InvokeReturns ==
  /\ retryPc = "call"
  /\ attempt <= policy.maxRetries
  /\ calls' = calls + 1
  /\ retryPc' = "returned"
  /\ envelope' = SuccessEnvelope
  /\ allRetryable' = FALSE
  /\ UNCHANGED <<policy, attempt, delays, lastError, surfaced>>

\* A wrapper that lets the error of the retry sequence through instead of
\* turning it into an envelope.
InvokeThrowsRethrowing(error) ==
  /\ retryPc = "call"
  /\ attempt <= policy.maxRetries
  /\ calls' = calls + 1
  /\ lastError' = error
  /\ allRetryable' = (allRetryable /\ ~isNonRetryableError(error))
  /\ IF isNonRetryableError(error) \/ attempt = policy.maxRetries
       THEN retryPc' = "thrown" /\ surfaced' = error
       ELSE retryPc' = "sleep" /\ UNCHANGED surfaced
  /\ UNCHANGED <<policy, attempt, delays, envelope>>

\* fn() throws `error`: the catch block of the loop.
InvokeThrows(error) ==
  /\ retryPc = "call"
  /\ attempt <= policy.maxRetries
  /\ calls' = calls + 1
  /\ lastError' = error
  /\ allRetryable' = (allRetryable /\ ~isNonRetryableError(error))
  /\ IF isNonRetryableError(error)
       THEN /\ retryPc' = "thrown"
            /\ surfaced' = error
            /\ envelope' = handleCloudError(error)
       ELSE IF attempt = policy.maxRetries
         THEN /\ retryPc' = "thrown"
              /\ surfaced' = error
              /\ envelope' = handleCloudError(error)
         ELSE /\ retryPc' = "sleep"
              /\ UNCHANGED <<surfaced, envelope>>
  /\ UNCHANGED <<policy, attempt, delays>>

\* A loop that forgets to count the attempt it has slept for.
SleepWithoutCounting ==
  /\ retryPc = "sleep"
  /\ delays' = Append(delays, BackoffDelay(policy, attempt))
  /\ retryPc' = "call"
  /\ UNCHANGED <<policy, attempt, calls, lastError, surfaced, envelope, allRetryable>>

\* await new Promise(resolve => setTimeout(resolve, delay)); attempt++
Sleep ==
  /\ retryPc = "sleep"
  /\ delays' = Append(delays, BackoffDelay(policy, attempt))
  /\ attempt' = attempt + 1
  /\ retryPc' = "call"
  /\ UNCHANGED <<policy, calls, lastError, surfaced, envelope, allRetryable>>


(***************************************************************************)
(* Strings as sequences of characters                                      *)
(***************************************************************************)
StartsWith(s, prefix) ==
  Len(s) >= Len(prefix) /\ SubSeq(s, 1, Len(prefix)) = prefix

\* s.substring(n)
Substring(s, n) == SubSeq(s, n + 1, Len(s))

RECURSIVE TrimStart(_)
TrimStart(s) == IF s # <<>> /\ Head(s) = " " THEN TrimStart(Tail(s)) ELSE s

RECURSIVE TrimEnd(_)
TrimEnd(s) ==
  IF s # <<>> /\ s[Len(s)] = " " THEN TrimEnd(SubSeq(s, 1, Len(s) - 1)) ELSE s

\* s.trim()
Trim(s) == TrimEnd(TrimStart(s))

LowerChar(c) ==
  CASE c = "A" -> "a"
    [] c = "B" -> "b"
    [] c = "X" -> "x"
    [] OTHER -> c

\* s.toLowerCase()
ToLowerCase(s) == [i \in 1..Len(s) |-> LowerChar(s[i])]

IsSpaceOrDash(c) == c \in {" ", "-"}

\* s.replace(/[\s\-]/g, '')
StripSpacesAndDashes(s) == SelectSeq(s, LAMBDA c : ~IsSpaceOrDash(c))

\* [...new Set(list)]: first occurrences, in order
RECURSIVE Dedup(_)
Dedup(list) ==
  IF list = <<>> THEN <<>>
  ELSE LET front == Dedup(SubSeq(list, 1, Len(list) - 1))
           last == list[Len(list)]
       IN IF \E i \in 1..Len(front) : front[i] = last THEN front
          ELSE Append(front, last)

(***************************************************************************)
(* Phone numbers (routes/auth.js normalizePhoneNumber,                     *)
(* authService.getUserByPhone normalizeToLocalFormat)                      *)
(* The absent phone (null, undefined, '') is the empty sequence.           *)
(***************************************************************************)
NoPhone == <<>>

Plus972 == <<"+", "9", "7", "2">>

normalizePhoneNumber(phoneNumber) ==
  IF phoneNumber = NoPhone THEN phoneNumber
  ELSE LET trimmed == Trim(phoneNumber)
           normalized == StripSpacesAndDashes(trimmed)
       IN IF StartsWith(trimmed, <<"+">>) THEN trimmed
          ELSE IF StartsWith(normalized, <<"0">>) THEN Plus972 \o normalized
          ELSE IF StartsWith(normalized, <<"9", "7", "2">>) THEN <<"+">> \o normalized
          ELSE Plus972 \o normalized

normalizeToLocalFormat(phone) ==
  IF phone = NoPhone THEN phone
  ELSE LET normalized == Trim(phone)
       IN IF StartsWith(normalized, <<"+", "9", "7", "2", "0">>)
            THEN <<"0">> \o Substring(normalized, 5)
          ELSE IF StartsWith(normalized, Plus972)
            THEN <<"0">> \o Substring(normalized, 4)
          ELSE IF StartsWith(normalized, <<"9", "7", "2", "0">>)
            THEN <<"0">> \o Substring(normalized, 4)
          ELSE IF StartsWith(normalized, <<"9", "7", "2">>)
            THEN <<"0">> \o Substring(normalized, 3)
          ELSE IF ~StartsWith(normalized, <<"0">>)
            THEN <<"0">> \o normalized
          ELSE normalized

\* getUserByPhone's uniqueFormats: the formats it scans for, in order
searchFormats(phoneNumber) ==
  LET localFormat == normalizeToLocalFormat(phoneNumber)
      internationalWithoutZero ==
        IF StartsWith(phoneNumber, <<"+", "9", "7", "2", "0">>)
          THEN Plus972 \o Substring(phoneNumber, 5)
          ELSE phoneNumber
  IN Dedup(SelectSeq(<<phoneNumber, localFormat, internationalWithoutZero>>,
                     LAMBDA f : f # NoPhone))

(***************************************************************************)
(* Password digests (authService.js hashPassword / verifyPassword)         *)
(* A digest is the scheme that produced it and the password it was made    *)
(* from; its text is 64 hexadecimal characters under the former SHA-256    *)
(* scheme and the 60-character "$2b$.." string under bcrypt.               *)
(***************************************************************************)
NullDigest == [scheme |-> "null", pw |-> ""]

\* the former hashPassword: sha256(password + salt) as hex
legacyHashPassword(password) == [scheme |-> "sha256", pw |-> password]

\* bcrypt.hash(password, BCRYPT_SALT_ROUNDS)
hashPassword(password) == [scheme |-> "bcrypt", pw |-> password]

DigestLength(hash) ==
  CASE hash.scheme = "sha256" -> 64
    [] hash.scheme = "bcrypt" -> 60
    [] OTHER -> 0

\* /^[a-f0-9]{64}$/i.test(hash)
IsHex64(hash) == hash.scheme = "sha256"

\* bcrypt.compare(password, hash); a hash that is no bcrypt string compares false
bcryptCompare(password, hash) == hash.scheme = "bcrypt" /\ hash.pw = password

\* The former verifyPassword: compare whatever digest is stored.
verifyPasswordComparingLegacy(password, hash) ==
  \/ hash.scheme = "sha256" /\ hash.pw = password
  \/ bcryptCompare(password, hash)

\* A verifyPassword that lets an account without a digest in.
verifyPasswordAcceptingNull(password, hash) ==
  hash = NullDigest \/ (hash.scheme = "bcrypt" /\ hash.pw = password)

\* bcrypt.compare throws on a null hash; the catch block returns false
verifyPassword(password, hash) ==
  IF hash # NullDigest /\ DigestLength(hash) = 64 /\ IsHex64(hash)
    THEN FALSE
    ELSE bcryptCompare(password, hash)

(***************************************************************************)
(* The record store: table ziko-users                                      *)
(***************************************************************************)
NoUser == [id |-> 0]
NoGoogleId == ""

Range(s) == {s[i] : i \in 1..Len(s)}

\* const { passwordHash: _, ...userWithoutPassword } = user
WithoutPassword(user) == [f \in DOMAIN user \ {"passwordHash"} |-> user[f]]

\* What a failed store call surfaces: a validation rejection, a transient fault.
ValidationError ==
  [name |-> "ValidationException", hasMessage |-> TRUE, fragments |-> {}]
TransientError ==
  [name |-> "ThrottlingException", hasMessage |-> TRUE, fragments |-> {}]

Ok(user) == [success |-> TRUE, error |-> "", user |-> user]
Failure(message) == [success |-> FALSE, error |-> message, user |-> NoUser]

\* A Scan with a filter: the result's Items[0] is any of the matching items;
\* the Scan may also fail, which the lookups turn into success: false.
ScanResults(matching) ==
  {Failure("scan failed")} \cup
  (IF matching = {} THEN {Ok(NoUser)} ELSE {Ok(u) : u \in matching})

getUserByEmail(email) ==
  ScanResults({u \in Range(users) : u.email = ToLowerCase(email)})

getUserByGoogleId(googleId) ==
  ScanResults({u \in Range(users) : u.googleId = googleId})

\* userService.getUserById: GetCommand under executeCloudOperation
getUserById(userId) ==
  {Failure(handleCloudError(TransientError).error)} \cup
  (IF userId \in 1..Len(users) THEN {Ok(users[userId])} ELSE {Ok(NoUser)})

\* userService.createUser: PutCommand under executeCloudOperation.  Each result
\* is the envelope returned and the table afterwards.
MaxUsers == 3

createUser(userData) ==
  {[result |-> Failure(handleCloudError(TransientError).error), table |-> users]} \cup
  (IF Len(users) < MaxUsers
     THEN {[result |-> Ok(userData), table |-> Append(users, userData)]}
     ELSE {})

\* userService.updateUser builds 'SET #updatedAt = :updatedAt' and appends
\* ', #key = :key' for every key of `updates` (a sequence of <<key, value>>).
UpdateExpressionNames(updates) ==
  <<"updatedAt">> \o [i \in 1..Len(updates) |-> updates[i][1]]

\* The store rejects an update expression in which two paths overlap.
PathsOverlap(names) ==
  \E i, j \in 1..Len(names) : i < j /\ names[i] = names[j]

ApplyUpdates(user, updates) ==
  [f \in DOMAIN user |->
     IF \E i \in 1..Len(updates) : updates[i][1] = f
       THEN updates[CHOOSE i \in 1..Len(updates) :
                      /\ updates[i][1] = f
                      /\ \A j \in 1..Len(updates) : updates[j][1] = f => j <= i][2]
       ELSE user[f]]

\* An update that assigns updatedAt once, from the updates when they name it.
updateUserAssigningOnce(userId, updates) ==
  {[result |-> Failure(handleCloudError(TransientError).error), table |-> users],
   [result |-> Ok(ApplyUpdates(users[userId], updates)),
    table |-> [users EXCEPT ![userId] = ApplyUpdates(users[userId], updates)]]}

updateUser(userId, updates) ==
  IF PathsOverlap(UpdateExpressionNames(updates))
    THEN {[result |-> Failure(handleCloudError(ValidationError).error), table |-> users]}
    ELSE {[result |-> Failure(handleCloudError(TransientError).error), table |-> users],
          [result |-> Ok(ApplyUpdates(users[userId], updates)),
           table |-> [users EXCEPT ![userId] = ApplyUpdates(users[userId], updates)]]}

(***************************************************************************)
(* Requests.  A slot holds one running handler: its operation, the await   *)
(* it is suspended at, its locals and, once it has returned, its result.   *)
(***************************************************************************)
NumSlots == 2
Slots == 1..NumSlots

Idle == [op |-> "idle", pc |-> "idle"]

Done(r, result) == [r EXCEPT !.pc = "done", !.result = result]

EmailA == <<"a", "@", "x">>
EmailUpperA == <<"A", "@", "x">>
EmailSpaceA == <<" ", "a", "@", "x">>
EmailB == <<"b", "@", "x">>
EmailG == <<"g", "@", "x">>
EmailZ == <<"z", "@", "x">>

LocalPhone == <<"0", "5", "4">>
IntlPhone == <<"+", "9", "7", "2", "0", "5", "4">>

Passwords == {"secret1", "wrong1"}

\* the password of a request body that has none
UndefinedPassword == "undefined"

\* An account made by the former registerWithEmail, whose digest is SHA-256.
LegacyUser ==
  [id |-> 1, email |-> EmailB, phone |-> NoPhone,
   passwordHash |-> legacyHashPassword("secret1"), googleId |-> NoGoogleId,
   authMethods |-> <<"email">>, isVerified |-> FALSE, lastLoginAt |-> "registration"]

\* An account made by registerWithEmail, and one made by registerWithGoogle.
PasswordUser ==
  [id |-> 2, email |-> EmailA, phone |-> IntlPhone,
   passwordHash |-> hashPassword("secret1"), googleId |-> NoGoogleId,
   authMethods |-> <<"email">>, isVerified |-> FALSE, lastLoginAt |-> "registration"]

GoogleUser ==
  [id |-> 3, email |-> EmailG, phone |-> NoPhone,
   passwordHash |-> NullDigest, googleId |-> "g1",
   authMethods |-> <<"google">>, isVerified |-> TRUE, lastLoginAt |-> "registration"]

RegisterBodies ==
  [email : {EmailA, EmailUpperA}, password : {"secret1"},
   phone : {NoPhone, LocalPhone, IntlPhone}]

GoogleBodies == [email : {EmailA, EmailSpaceA}, googleId : {"g1", "g2"}]

\* res.json(result): the handler is over and the slot is free again.
Respond(s) ==
  /\ req[s].pc = "done"
  /\ req' = [req EXCEPT ![s] = Idle]
  /\ UNCHANGED users

(***************************************************************************)
(* authService.registerWithEmail                                           *)
(***************************************************************************)
\* up to the first await's result: getUserByEmail and the duplicate check
RegisterWithEmailLookup(s, userData) ==
  /\ req[s] = Idle
  /\ \E existingUser \in getUserByEmail(userData.email) :
       LET r == [op |-> "register", pc |-> "create", userData |-> userData,
                 emailTaken |-> \E u \in Range(users) :
                                   u.email = ToLowerCase(userData.email),
                 lookupOk |-> existingUser.success,
                 result |-> Failure("")]
       IN req' = [req EXCEPT ![s] =
                    IF existingUser.success /\ existingUser.user # NoUser
                      THEN Done(r, Failure("User already exists with this email"))
                      ELSE r]
  /\ UNCHANGED users

\* hashPassword, which throws when the body has no password (bcrypt.hash of
\* undefined) and so ends the call in the catch block; then createUser and the
\* envelope
RegisterWithEmailCreate(s) ==
  /\ req[s].op = "register" /\ req[s].pc = "create"
  /\ LET userData == req[s].userData
         newUser == [id |-> Len(users) + 1,
                     email |-> ToLowerCase(userData.email),
                     phone |-> userData.phone,
                     passwordHash |-> hashPassword(userData.password),
                     googleId |-> NoGoogleId,
                     authMethods |-> <<"email">>,
                     isVerified |-> FALSE,
                     lastLoginAt |-> "registration"]
     IN IF userData.password = UndefinedPassword
          THEN /\ users' = users
               /\ req' = [req EXCEPT ![s] = Done(@, Failure("Registration failed"))]
          ELSE \E created \in createUser(newUser) :
                 /\ users' = created.table
                 /\ req' = [req EXCEPT ![s] =
                              Done(@, IF created.result.success
                                        THEN Ok(WithoutPassword(newUser))
                                        ELSE Failure(created.result.error))]

(***************************************************************************)
(* authService.registerWithGoogle                                          *)
(***************************************************************************)
RegisterWithGoogleLookupEmail(s, userData) ==
  /\ req[s] = Idle
  /\ \E existing \in getUserByEmail(userData.email) :
       LET r == [op |-> "google", pc |-> "byGoogleId", userData |-> userData,
                 result |-> Failure("")]
       IN req' = [req EXCEPT ![s] =
                    IF existing.success /\ existing.user # NoUser
                      THEN Done(r, Ok(WithoutPassword(existing.user)))
                      ELSE r]
  /\ UNCHANGED users

RegisterWithGoogleLookupId(s) ==
  /\ req[s].op = "google" /\ req[s].pc = "byGoogleId"
  /\ \E existing \in getUserByGoogleId(req[s].userData.googleId) :
       req' = [req EXCEPT ![s] =
                 IF existing.success /\ existing.user # NoUser
                   THEN Done(@, Ok(WithoutPassword(existing.user)))
                   ELSE [@ EXCEPT !.pc = "create"]]
  /\ UNCHANGED users

RegisterWithGoogleCreate(s) ==
  /\ req[s].op = "google" /\ req[s].pc = "create"
  /\ LET userData == req[s].userData
         newUser == [id |-> Len(users) + 1,
                     email |-> Trim(ToLowerCase(userData.email)),
                     phone |-> NoPhone,
                     passwordHash |-> NullDigest,
                     googleId |-> userData.googleId,
                     authMethods |-> <<"google">>,
                     isVerified |-> TRUE,
                     lastLoginAt |-> "registration"]
     IN \E created \in createUser(newUser) :
          /\ users' = created.table
          /\ req' = [req EXCEPT ![s] =
                       Done(@, IF created.result.success
                                 THEN Ok(WithoutPassword(newUser))
                                 ELSE Failure(created.result.error))]

(***************************************************************************)
(* authService.loginWithEmail                                              *)
(***************************************************************************)
InvalidCredentials == Failure("Invalid email or password")

\* A login that tells a Google-only account apart.
loginCheckRevealingGoogle(userResult, password) ==
  IF ~userResult.success \/ userResult.user = NoUser
    THEN InvalidCredentials
  ELSE IF userResult.user.passwordHash = NullDigest
    THEN Failure("This account uses Google sign-in.")
  ELSE IF ~verifyPassword(password, userResult.user.passwordHash)
    THEN InvalidCredentials
  ELSE Ok(WithoutPassword(userResult.user))

\* The checks between getUserByEmail and updateUser: the failure returned, or
\* the success envelope the call returns once lastLoginAt is written.
loginCheck(userResult, password) ==
  IF ~userResult.success \/ userResult.user = NoUser
    THEN Failure("Invalid email or password")
  ELSE IF userResult.user.passwordHash = NullDigest
    THEN Failure("Invalid email or password")
  ELSE IF ~verifyPassword(password, userResult.user.passwordHash)
    THEN Failure("Invalid email or password")
  ELSE Ok(WithoutPassword(userResult.user))

LoginWithEmailLookup(s, email, password) ==
  /\ req[s] = Idle
  /\ \E userResult \in getUserByEmail(email) :
       LET r == [op |-> "login", pc |-> "update", email |-> email,
                 password |-> password, user |-> userResult.user,
                 result |-> Failure("")]
           check == loginCheck(userResult, password)
       IN req' = [req EXCEPT ![s] = IF check.success THEN r ELSE Done(r, check)]
  /\ UNCHANGED users

\* await userService.updateUser(user.id, {lastLoginAt}); its result is not read
LoginWithEmailUpdate(s) ==
  /\ req[s].op = "login" /\ req[s].pc = "update"
  /\ \E updated \in updateUser(req[s].user.id, <<<<"lastLoginAt", "login">>>>) :
       /\ users' = updated.table
       /\ req' = [req EXCEPT ![s] = Done(@, Ok(WithoutPassword(@.user)))]

(***************************************************************************)
(* authService.changePassword                                              *)
(***************************************************************************)
ChangePasswordLookup(s, userId, currentPassword, newPassword) ==
  /\ req[s] = Idle
  /\ \E userResult \in getUserById(userId) :
       LET r == [op |-> "changePassword", pc |-> "update", userId |-> userId,
                 currentPassword |-> currentPassword, newPassword |-> newPassword,
                 user |-> userResult.user, result |-> Failure("")]
       IN req' = [req EXCEPT ![s] =
                    IF ~userResult.success \/ userResult.user = NoUser
                      THEN Done(r, Failure("User not found"))
                    ELSE IF /\ userResult.user.passwordHash # NullDigest
                            /\ ~verifyPassword(currentPassword,
                                               userResult.user.passwordHash)
                      THEN Done(r, Failure("Current password is incorrect"))
                    ELSE r]
  /\ UNCHANGED users

\* hashPassword, then updateUser(userId, {passwordHash, updatedAt})
ChangePasswordUpdate(s) ==
  /\ req[s].op = "changePassword" /\ req[s].pc = "update"
  /\ \E updated \in updateUser(req[s].userId,
                               <<<<"passwordHash", hashPassword(req[s].newPassword)>>,
                                 <<"updatedAt", "changePassword">>>>) :
       /\ users' = updated.table
       /\ req' = [req EXCEPT ![s] =
                    Done(@, IF updated.result.success
                              THEN Ok(NoUser)
                              ELSE Failure(updated.result.error))]

(***************************************************************************)
(* authService.getUsers, GET /user/:userId, authService.updateUserProfile  *)
(***************************************************************************)
UsersReply(success, error, found) ==
  [success |-> success, error |-> error, users |-> found]

\* contains(attribute, :query)
Contains(s, q) ==
  \E i \in 0..(Len(s) - Len(q)) : SubSeq(s, i + 1, i + Len(q)) = q

\* The prefix 'google:' is one symbol of a query, the Google id after it another.
GooglePrefix == <<"google:">>

\* query.replace('google:', '')
GoogleIdOf(query) ==
  IF Len(query) = 2 THEN query[2] ELSE NoGoogleId

\* The users of the reply are the raw Items of the Scan.
getUsers(query) ==
  IF StartsWith(query, GooglePrefix)
    THEN {IF ~r.success THEN UsersReply(FALSE, r.error, {})
          ELSE IF r.user # NoUser THEN UsersReply(TRUE, "", {r.user})
          ELSE UsersReply(TRUE, "", {}) :
            r \in getUserByGoogleId(GoogleIdOf(query))}
    ELSE {UsersReply(FALSE, "scan failed", {}),
          UsersReply(TRUE, "",
                     {u \in Range(users) :
                        \/ Contains(u.email, ToLowerCase(query))
                        \/ Contains(u.phone, ToLowerCase(query))})}

\* POST /search-users: res.json(result)
GetUsers(s, query) ==
  /\ req[s] = Idle
  /\ \E r \in getUsers(query) :
       req' = [req EXCEPT ![s] =
                 [op |-> "getUsers", pc |-> "done", query |-> query,
                  status |-> 200, result |-> r]]
  /\ UNCHANGED users

\* GET /user/:userId: the envelope of userService.getUserById as it is
GetUserRoute(s, userId) ==
  /\ req[s] = Idle
  /\ \E r \in getUserById(userId) :
       req' = [req EXCEPT ![s] =
                 [op |-> "getUser", pc |-> "done", userId |-> userId,
                  status |-> IF r.success THEN 200 ELSE 404, result |-> r]]
  /\ UNCHANGED users

\* PUT /profile/:userId with req.body as the updates: updateUserProfile returns
\* the Attributes of the update, ALL_NEW.
UpdateUserProfile(s, userId, updates) ==
  /\ req[s] = Idle
  /\ \E updated \in updateUser(userId, updates) :
       /\ users' = updated.table
       /\ req' = [req EXCEPT ![s] =
                    [op |-> "updateProfile", pc |-> "done", userId |-> userId,
                     updates |-> updates,
                     status |-> IF updated.result.success THEN 200 ELSE 400,
                     result |-> IF updated.result.success
                                  THEN Ok(updated.result.user)
                                  ELSE Failure(updated.result.error)]]

(***************************************************************************)
(* authService.getUserByPhone: a Scan per search format, in order; the     *)
(* first format that matches decides, and a failing Scan fails the lookup. *)
(***************************************************************************)
getUserByPhone(phoneNumber) ==
  {Failure("scan failed")} \cup
  (LET formats == searchFormats(phoneNumber)
       hits(i) == {u \in Range(users) : u.phone = formats[i]}
       matching == {i \in 1..Len(formats) : hits(i) # {}}
   IN IF matching = {} THEN {Ok(NoUser)}
      ELSE {Ok(u) : u \in hits(CHOOSE i \in matching : \A j \in matching : i <= j)})

(***************************************************************************)
(* The two in-memory code stores: smsService otpStore (keyed by phone) and *)
(* authService.resetCodeStore (keyed by user id).  A Map is a function on  *)
(* the keys it holds.  Time unit: five minutes.                            *)
(***************************************************************************)
OtpTtl == 1
ResetTtl == 3
MaxTime == 4

\* Math.floor(100000 + Math.random() * 900000).toString()
Codes == {"123456", "654321"}

EmptyMap == [k \in {} |-> 0]

MapSet(map, key, value) ==
  [k \in DOMAIN map \cup {key} |-> IF k = key THEN value ELSE map[k]]

MapDelete(map, key) == [k \in DOMAIN map \ {key} |-> map[k]]

\* An outbound SMS through SNS: delivered, or the send throws.
SmsOutcomes == {"sent", "failed"}

\* A sendOTP that keeps the code already stored for the phone.
sendOTPKeepingOld(phoneNumber, userExists, code, awsEnabled, sms) ==
  [result |-> [success |-> awsEnabled /\ sms = "sent", error |-> "",
               needsRegistration |-> ~userExists],
   store |->
     IF userExists /\ phoneNumber \notin DOMAIN otpStore
       THEN MapSet(otpStore, phoneNumber, [code |-> code, expiresAt |-> now + OtpTtl])
       ELSE otpStore,
   published |-> "none"]

\* A sendOTP that stores a code whether or not the phone has a user.
sendOTPIssuingForUnknown(phoneNumber, userExists, code, awsEnabled, sms) ==
  [result |->
     IF ~awsEnabled
       THEN [success |-> FALSE, error |-> "SMS service not configured",
             needsRegistration |-> ~userExists]
     ELSE IF sms = "sent"
       THEN [success |-> TRUE, error |-> "", needsRegistration |-> ~userExists]
     ELSE [success |-> FALSE, error |-> "Failed to send SMS",
           needsRegistration |-> FALSE],
   store |-> MapSet(otpStore, phoneNumber, [code |-> code, expiresAt |-> now + OtpTtl]),
   published |-> IF awsEnabled /\ sms = "sent" THEN "code" ELSE "none"]

\* A sendOTP that takes the code back when the message could not go out.
sendOTPRollingBack(phoneNumber, userExists, code, awsEnabled, sms) ==
  [result |->
     IF ~awsEnabled
       THEN [success |-> FALSE, error |-> "SMS service not configured",
             needsRegistration |-> ~userExists]
     ELSE IF sms = "sent"
       THEN [success |-> TRUE, error |-> "", needsRegistration |-> ~userExists]
     ELSE [success |-> FALSE, error |-> "Failed to send SMS",
           needsRegistration |-> FALSE],
   store |->
     IF userExists /\ awsEnabled /\ sms = "sent"
       THEN MapSet(otpStore, phoneNumber, [code |-> code, expiresAt |-> now + OtpTtl])
       ELSE otpStore,
   published |->
     IF awsEnabled /\ sms = "sent"
       THEN (IF userExists THEN "code" ELSE "notice")
       ELSE "none"]

\* smsService.sendOTP: its result, the store afterwards and the message that
\* went out (the code, the registration notice, or none).  awsEnabled is
\* AWS_ENABLED, fixed when the process loads the module.
sendOTP(phoneNumber, userExists, code, awsEnabled, sms) ==
  [result |->
     IF ~awsEnabled
       THEN [success |-> FALSE, error |-> "SMS service not configured",
             needsRegistration |-> ~userExists]
     ELSE IF sms = "sent"
       THEN [success |-> TRUE, error |-> "", needsRegistration |-> ~userExists]
     ELSE [success |-> FALSE, error |-> "Failed to send SMS",
           needsRegistration |-> FALSE],
   store |->
     IF userExists
       THEN MapSet(otpStore, phoneNumber, [code |-> code, expiresAt |-> now + OtpTtl])
       ELSE otpStore,
   published |->
     IF awsEnabled /\ sms = "sent"
       THEN (IF userExists THEN "code" ELSE "notice")
       ELSE "none"]

\* A verifyOTP that leaves a used code in the store.
verifyOTPKeepingUsed(phoneNumber, code) ==
  IF phoneNumber \notin DOMAIN otpStore
    THEN [valid |-> FALSE, log |-> "No OTP found for phone number", store |-> otpStore]
  ELSE IF now > otpStore[phoneNumber].expiresAt
    THEN [valid |-> FALSE, log |-> "OTP expired",
          store |-> MapDelete(otpStore, phoneNumber)]
  ELSE IF otpStore[phoneNumber].code # code
    THEN [valid |-> FALSE, log |-> "Invalid OTP code", store |-> otpStore]
  ELSE [valid |-> TRUE, log |-> "OTP verified successfully", store |-> otpStore]

\* smsService.verifyOTP: what it returns, what it logs, the store afterwards
verifyOTP(phoneNumber, code) ==
  IF phoneNumber \notin DOMAIN otpStore
    THEN [valid |-> FALSE, log |-> "No OTP found for phone number", store |-> otpStore]
  ELSE IF now > otpStore[phoneNumber].expiresAt
    THEN [valid |-> FALSE, log |-> "OTP expired",
          store |-> MapDelete(otpStore, phoneNumber)]
  ELSE IF otpStore[phoneNumber].code # code
    THEN [valid |-> FALSE, log |-> "Invalid OTP code", store |-> otpStore]
  ELSE [valid |-> TRUE, log |-> "OTP verified successfully",
        store |-> MapDelete(otpStore, phoneNumber)]

\* History: otpPasses[key] counts the verifications that succeeded against the
\* code now or last stored under `key` (2 stands for two or more).
Bump(count) == Min(count + 1, 2)

OtpPassesOf(key) == IF key \in DOMAIN otpPasses THEN otpPasses[key] ELSE 0

(***************************************************************************)
(* routes/auth.js: /send-otp, /verify-otp, /login-with-phone.  A response  *)
(* is the value of the operator the action applies; the state keeps what   *)
(* later steps read.  A user lookup reads phone, email and whether a       *)
(* digest is set, which no handler of these routes writes, so a lookup is  *)
(* taken in the same step as the synchronous stretch that follows it.      *)
(***************************************************************************)
\* normalize, getUserByPhone, smsService.sendOTP(normalizedPhone, userExists);
\* the store is written before the SMS goes out, whatever becomes of the SMS
SendOtp(phoneNumber, code) ==
  /\ \E existingUser \in getUserByPhone(normalizePhoneNumber(phoneNumber)) :
       LET normalizedPhone == normalizePhoneNumber(phoneNumber)
           userExists == existingUser.success /\ existingUser.user # NoUser
       IN /\ otpStore' = sendOTP(normalizedPhone, userExists, code, TRUE, "sent").store
          /\ otpPasses' = IF userExists THEN MapSet(otpPasses, normalizedPhone, 0)
                          ELSE otpPasses
  /\ UNCHANGED <<users, req, resetCodeStore, resetPasses, now>>

VerifyOtp(phoneNumber, code) ==
  /\ LET normalizedPhone == normalizePhoneNumber(phoneNumber)
         verdict == verifyOTP(normalizedPhone, code)
     IN /\ otpStore' = verdict.store
        /\ otpPasses' =
             IF verdict.valid
               THEN MapSet(otpPasses, normalizedPhone, Bump(OtpPassesOf(normalizedPhone)))
               ELSE otpPasses
  /\ UNCHANGED <<users, req, resetCodeStore, resetPasses, now>>

\* up to the first await: verifyOTP, and the 401 when it returns false
LoginWithPhoneVerify(s, phoneNumber, code) ==
  /\ req[s] = Idle
  /\ LET normalizedPhone == normalizePhoneNumber(phoneNumber)
         verdict == verifyOTP(normalizedPhone, code)
     IN /\ otpStore' = verdict.store
        /\ otpPasses' =
             IF verdict.valid
               THEN MapSet(otpPasses, normalizedPhone, Bump(OtpPassesOf(normalizedPhone)))
               ELSE otpPasses
        /\ req' = IF verdict.valid
                    THEN [req EXCEPT ![s] =
                            [op |-> "loginWithPhone", pc |-> "lookup",
                             normalizedPhone |-> normalizedPhone]]
                    ELSE req
  /\ UNCHANGED <<users, resetCodeStore, resetPasses, now>>

\* getUserByPhone, updateUser(lastLoginAt), the response
LoginWithPhoneFinish(s) ==
  /\ req[s].op = "loginWithPhone" /\ req[s].pc = "lookup"
  /\ \E existingUser \in getUserByPhone(req[s].normalizedPhone) :
       IF ~existingUser.success \/ existingUser.user = NoUser
         THEN UNCHANGED users
         ELSE \E updated \in updateUser(existingUser.user.id,
                                        <<<<"lastLoginAt", "login">>>>) :
                users' = updated.table
  /\ req' = [req EXCEPT ![s] = Idle]
  /\ UNCHANGED <<otpStore, otpPasses, resetCodeStore, resetPasses, now>>

\* The OTP routes with their responses kept in the request slot.
OtpReply(success, error, needsRegistration, user) ==
  [success |-> success, error |-> error, needsRegistration |-> needsRegistration,
   user |-> user]

\* POST /send-otp: the whole handler, getUserByPhone and smsService.sendOTP
\* included, up to res.json(result)
SendOtpRoute(s, phoneNumber, code, awsEnabled, sms) ==
  /\ req[s] = Idle
  /\ IF phoneNumber = <<>>
       THEN /\ req' = [req EXCEPT ![s] =
                         [op |-> "sendOtp", pc |-> "done", status |-> 400,
                          phoneNumber |-> phoneNumber, normalizedPhone |-> <<>>, userExists |-> FALSE,
                          code |-> "", published |-> "none",
                          result |-> OtpReply(FALSE, "Phone number required",
                                              FALSE, NoUser)]]
            /\ UNCHANGED <<otpStore, otpPasses>>
       ELSE \E existingUser \in getUserByPhone(normalizePhoneNumber(phoneNumber)) :
              LET normalizedPhone == normalizePhoneNumber(phoneNumber)
                  userExists == existingUser.success /\ existingUser.user # NoUser
                  out == sendOTP(normalizedPhone, userExists, code, awsEnabled, sms)
              IN /\ req' = [req EXCEPT ![s] =
                              [op |-> "sendOtp", pc |-> "done", status |-> 200,
                               phoneNumber |-> phoneNumber,
                               normalizedPhone |-> normalizedPhone,
                               userExists |-> userExists,
                               code |-> IF userExists THEN code ELSE "",
                               published |-> out.published,
                               result |-> OtpReply(out.result.success, out.result.error,
                                                   out.result.needsRegistration,
                                                   NoUser)]]
                 /\ otpStore' = out.store
                 /\ otpPasses' = IF userExists THEN MapSet(otpPasses, normalizedPhone, 0)
                                 ELSE otpPasses
  /\ UNCHANGED <<users, resetCodeStore, resetPasses, now>>

VerifyRequest(status, phoneNumber, normalizedPhone, code, verified) ==
  [op |-> "verifyOtp", pc |-> "done", status |-> status,
   phoneNumber |-> phoneNumber, normalizedPhone |-> normalizedPhone,
   code |-> code, verified |-> verified,
   result |-> OtpReply(verified,
                       IF status = 400 THEN "Phone number and code required" ELSE "",
                       FALSE, NoUser)]

\* A /verify-otp that looks the code up under the number as it was typed.
VerifyOtpRouteAsTyped(s, phoneNumber, code) ==
  /\ req[s] = Idle
  /\ IF phoneNumber = <<>> \/ code = ""
       THEN /\ req' = [req EXCEPT ![s] =
                         VerifyRequest(400, phoneNumber, <<>>, code, FALSE)]
            /\ UNCHANGED <<otpStore, otpPasses>>
       ELSE LET verdict == verifyOTP(phoneNumber, code)
            IN /\ req' = [req EXCEPT ![s] =
                            VerifyRequest(200, phoneNumber, phoneNumber, code,
                                          verdict.valid)]
               /\ otpStore' = verdict.store
               /\ otpPasses' =
                    IF verdict.valid
                      THEN MapSet(otpPasses, phoneNumber, Bump(OtpPassesOf(phoneNumber)))
                      ELSE otpPasses
  /\ UNCHANGED <<users, resetCodeStore, resetPasses, now>>

\* POST /verify-otp: the 400 for a missing field, else normalizePhoneNumber,
\* smsService.verifyOTP and res.json({success: isValid, verified: isValid})
VerifyOtpRoute(s, phoneNumber, code) ==
  /\ req[s] = Idle
  /\ IF phoneNumber = <<>> \/ code = ""
       THEN /\ req' = [req EXCEPT ![s] =
                         VerifyRequest(400, phoneNumber, <<>>, code, FALSE)]
            /\ UNCHANGED <<otpStore, otpPasses>>
       ELSE LET normalizedPhone == normalizePhoneNumber(phoneNumber)
                verdict == verifyOTP(normalizedPhone, code)
            IN /\ req' = [req EXCEPT ![s] =
                            VerifyRequest(200, phoneNumber, normalizedPhone, code,
                                          verdict.valid)]
               /\ otpStore' = verdict.store
               /\ otpPasses' =
                    IF verdict.valid
                      THEN MapSet(otpPasses, normalizedPhone,
                                  Bump(OtpPassesOf(normalizedPhone)))
                      ELSE otpPasses
  /\ UNCHANGED <<users, resetCodeStore, resetPasses, now>>

LoginRequest(status, normalizedPhone, code, userRead, result) ==
  [op |-> "loginWithPhone", pc |-> "done", status |-> status,
   normalizedPhone |-> normalizedPhone, code |-> code, userRead |-> userRead,
   result |-> result]

\* A login route that goes on to the lookup whatever verifyOTP returned.
LoginWithPhoneRouteVerifySkipping(s, phoneNumber, code) ==
  /\ req[s] = Idle
  /\ phoneNumber # <<>> /\ code # ""
  /\ req' = [req EXCEPT ![s] =
               [op |-> "loginWithPhone", pc |-> "lookup",
                normalizedPhone |-> normalizePhoneNumber(phoneNumber),
                code |-> code]]
  /\ UNCHANGED <<otpStore, otpPasses, users, resetCodeStore, resetPasses, now>>

\* POST /login-with-phone up to the first await: the body check, verifyOTP,
\* and the 401 when it returns false
LoginWithPhoneRouteVerify(s, phoneNumber, code) ==
  /\ req[s] = Idle
  /\ IF phoneNumber = <<>> \/ code = ""
       THEN /\ req' = [req EXCEPT ![s] =
                         LoginRequest(400, <<>>, code, FALSE,
                           OtpReply(FALSE, "Phone number and code required",
                                    FALSE, NoUser))]
            /\ UNCHANGED <<otpStore, otpPasses>>
       ELSE LET normalizedPhone == normalizePhoneNumber(phoneNumber)
                verdict == verifyOTP(normalizedPhone, code)
            IN /\ otpStore' = verdict.store
               /\ otpPasses' =
                    IF verdict.valid
                      THEN MapSet(otpPasses, normalizedPhone,
                                  Bump(OtpPassesOf(normalizedPhone)))
                      ELSE otpPasses
               /\ req' = [req EXCEPT ![s] =
                            IF verdict.valid
                              THEN [op |-> "loginWithPhone", pc |-> "lookup",
                                    normalizedPhone |-> normalizedPhone,
                                    code |-> code]
                              ELSE LoginRequest(401, normalizedPhone, code, FALSE,
                                     OtpReply(FALSE, "Invalid or expired OTP code",
                                              FALSE, NoUser))]
  /\ UNCHANGED <<users, resetCodeStore, resetPasses, now>>

\* the rest of POST /login-with-phone: getUserByPhone, the 404, or
\* updateUser(lastLoginAt), whose result the route does not read, and the 200
LoginWithPhoneRouteFinish(s) ==
  /\ req[s].op = "loginWithPhone" /\ req[s].pc = "lookup"
  /\ \E existingUser \in getUserByPhone(req[s].normalizedPhone) :
       IF ~existingUser.success \/ existingUser.user = NoUser
         THEN /\ UNCHANGED users
              /\ req' = [req EXCEPT ![s] =
                           LoginRequest(404, req[s].normalizedPhone, req[s].code, TRUE,
                             OtpReply(FALSE, "User not found. Please register first.",
                                      TRUE, NoUser))]
         ELSE \E updated \in updateUser(existingUser.user.id,
                                        <<<<"lastLoginAt", "login">>>>) :
                /\ users' = updated.table
                /\ req' = [req EXCEPT ![s] =
                             LoginRequest(200, req[s].normalizedPhone, req[s].code, TRUE,
                               OtpReply(TRUE, "", FALSE,
                                        WithoutPassword(existingUser.user)))]
  /\ UNCHANGED <<otpStore, otpPasses, resetCodeStore, resetPasses, now>>

\* setInterval(() => smsService.cleanupExpiredOTPs(), 60000)
CleanupExpiredOTPs ==
  /\ \E k \in DOMAIN otpStore : now > otpStore[k].expiresAt
  /\ otpStore' = [k \in {q \in DOMAIN otpStore : ~(now > otpStore[q].expiresAt)}
                    |-> otpStore[k]]
  /\ UNCHANGED <<users, req, otpPasses, resetCodeStore, resetPasses, now>>

(***************************************************************************)
(* authService.requestPasswordReset and authService.resetPassword          *)
(***************************************************************************)
ResetPassesOf(userId) == IF userId \in DOMAIN resetPasses THEN resetPasses[userId] ELSE 0

\* getUserByEmail(emailOrPhone), else getUserByPhone(emailOrPhone), else null
findUser(emailOrPhone) ==
  {IF emailResult.success /\ emailResult.user # NoUser THEN emailResult.user
   ELSE IF phoneResult.success /\ phoneResult.user # NoUser THEN phoneResult.user
   ELSE NoUser :
     emailResult \in getUserByEmail(emailOrPhone),
     phoneResult \in getUserByPhone(emailOrPhone)}

ResetReply(success, error, message, resetCode) ==
  [success |-> success, error |-> error, message |-> message, resetCode |-> resetCode]

\* A reset request that stores a code even when the lookup gave nobody.
requestPasswordResetIssuingForNobody(user, resetCode, awsEnabled, sms) ==
  IF user = NoUser
    THEN [result |-> ResetReply(TRUE, "",
                       "If an account exists, a reset code will be sent", ""),
          store |-> MapSet(resetCodeStore, 0,
                           [code |-> resetCode, expiresAt |-> now + ResetTtl,
                            email |-> <<>>]),
          smsAttempted |-> FALSE]
  ELSE IF user.passwordHash = NullDigest
    THEN [result |-> ResetReply(FALSE,
            "This account uses Google sign-in. Password reset is not available.",
            "", ""),
          store |-> resetCodeStore,
          smsAttempted |-> FALSE]
  ELSE [result |-> ResetReply(TRUE, "", "Password reset code sent successfully", ""),
        store |-> MapSet(resetCodeStore, user.id,
                         [code |-> resetCode, expiresAt |-> now + ResetTtl,
                          email |-> user.email]),
        smsAttempted |-> (user.phone # NoPhone /\ awsEnabled)]

\* A reset request that stores a code for an account without a digest too.
requestPasswordResetIssuingForGoogle(user, resetCode, awsEnabled, sms) ==
  IF user = NoUser
    THEN [result |-> ResetReply(TRUE, "",
                       "If an account exists, a reset code will be sent", ""),
          store |-> resetCodeStore,
          smsAttempted |-> FALSE]
  ELSE [result |->
          IF user.passwordHash = NullDigest
            THEN ResetReply(FALSE,
                   "This account uses Google sign-in. Password reset is not available.",
                   "", "")
            ELSE ResetReply(TRUE, "", "Password reset code sent successfully", ""),
        store |-> MapSet(resetCodeStore, user.id,
                         [code |-> resetCode, expiresAt |-> now + ResetTtl,
                          email |-> user.email]),
        smsAttempted |-> (user.phone # NoPhone /\ awsEnabled)]

\* requestPasswordReset once the lookup has given `user`: its result and the
\* store afterwards
\* A reset request that puts the code in its reply whatever became of the SMS.
requestPasswordResetAlwaysDisclosing(user, resetCode, awsEnabled, sms) ==
  IF user = NoUser
    THEN [result |-> ResetReply(TRUE, "",
                       "If an account exists, a reset code will be sent", ""),
          store |-> resetCodeStore,
          smsAttempted |-> FALSE]
  ELSE IF user.passwordHash = NullDigest
    THEN [result |-> ResetReply(FALSE,
            "This account uses Google sign-in. Password reset is not available.",
            "", ""),
          store |-> resetCodeStore,
          smsAttempted |-> FALSE]
  ELSE [result |->
          ResetReply(TRUE, "",
                     "Reset code generated. Check console/server logs for code.",
                     resetCode),
        store |-> MapSet(resetCodeStore, user.id,
                         [code |-> resetCode, expiresAt |-> now + ResetTtl,
                          email |-> user.email]),
        smsAttempted |-> (user.phone # NoPhone /\ awsEnabled)]

requestPasswordReset(user, resetCode, awsEnabled, sms) ==
  IF user = NoUser
    THEN [result |-> ResetReply(TRUE, "",
                       "If an account exists, a reset code will be sent", ""),
          store |-> resetCodeStore,
          smsAttempted |-> FALSE]
  ELSE IF user.passwordHash = NullDigest
    THEN [result |-> ResetReply(FALSE,
            "This account uses Google sign-in. Password reset is not available.",
            "", ""),
          store |-> resetCodeStore,
          smsAttempted |-> FALSE]
  ELSE [result |->
          IF user.phone # NoPhone /\ awsEnabled /\ sms = "sent"
            THEN ResetReply(TRUE, "", "Password reset code sent successfully", "")
            ELSE ResetReply(TRUE, "",
                   "Reset code generated. Check console/server logs for code.",
                   resetCode),
        store |-> MapSet(resetCodeStore, user.id,
                         [code |-> resetCode, expiresAt |-> now + ResetTtl,
                          email |-> user.email]),
        smsAttempted |-> (user.phone # NoPhone /\ awsEnabled)]

RequestPasswordReset(emailOrPhone, resetCode) ==
  /\ \E user \in findUser(emailOrPhone) :
       /\ resetCodeStore' = requestPasswordReset(user, resetCode, TRUE, "sent").store
       /\ resetPasses' = IF user # NoUser /\ user.passwordHash # NullDigest
                           THEN MapSet(resetPasses, user.id, 0)
                           ELSE resetPasses
  /\ UNCHANGED <<users, req, otpStore, otpPasses, now>>

\* POST /forgot-password: the whole handler, its call of
\* authService.requestPasswordReset included, up to the response it sends.
\* The slot keeps the response and the id of the user the lookup gave.
ForgotPassword(s, emailOrPhone, resetCode, awsEnabled, sms) ==
  /\ req[s] = Idle
  /\ IF emailOrPhone = <<>>
       THEN /\ req' = [req EXCEPT ![s] =
                         [op |-> "forgotPassword", pc |-> "done", found |-> 0,
                          status |-> 400, smsAttempted |-> FALSE,
                          result |-> ResetReply(FALSE, "Email or phone number required",
                                                "", "")]]
            /\ UNCHANGED <<resetCodeStore, resetPasses>>
       ELSE \E user \in findUser(emailOrPhone) :
              LET out == requestPasswordReset(user, resetCode, awsEnabled, sms)
              IN /\ req' = [req EXCEPT ![s] =
                              [op |-> "forgotPassword", pc |-> "done",
                               found |-> user.id,
                               status |-> IF out.result.success THEN 200 ELSE 400,
                               smsAttempted |-> out.smsAttempted,
                               result |-> out.result]]
                 /\ resetCodeStore' = out.store
                 /\ resetPasses' = IF user # NoUser /\ user.passwordHash # NullDigest
                                     THEN MapSet(resetPasses, user.id, 0)
                                     ELSE resetPasses
  /\ UNCHANGED <<users, otpStore, otpPasses, now>>

\* A check that leaves an expired reset code in the store.
checkResetCodeKeepingExpired(userId, resetCode) ==
  IF userId \notin DOMAIN resetCodeStore
    THEN [error |-> "Invalid or expired reset code", store |-> resetCodeStore]
  ELSE IF now > resetCodeStore[userId].expiresAt
    THEN [error |-> "Reset code has expired. Please request a new one.",
          store |-> resetCodeStore]
  ELSE IF resetCodeStore[userId].code # resetCode
    THEN [error |-> "Invalid reset code", store |-> resetCodeStore]
  ELSE [error |-> "", store |-> resetCodeStore]

\* resetPassword between the lookup and hashPassword: the error it returns
\* ("" when the code is accepted) and the store afterwards
checkResetCode(userId, resetCode) ==
  IF userId \notin DOMAIN resetCodeStore
    THEN [error |-> "Invalid or expired reset code", store |-> resetCodeStore]
  ELSE IF now > resetCodeStore[userId].expiresAt
    THEN [error |-> "Reset code has expired. Please request a new one.",
          store |-> MapDelete(resetCodeStore, userId)]
  ELSE IF resetCodeStore[userId].code # resetCode
    THEN [error |-> "Invalid reset code", store |-> resetCodeStore]
  ELSE [error |-> "", store |-> resetCodeStore]

\* Argument checks that forget the minimum length.
checkResetArgumentsNoLength(resetCode, newPassword) ==
  IF resetCode = "" \/ newPassword = ""
    THEN "Reset code and new password are required"
  ELSE ""

\* resetPassword's argument checks: the error returned, "" when they pass
checkResetArguments(resetCode, newPassword) ==
  IF resetCode = "" \/ newPassword = ""
    THEN "Reset code and new password are required"
  ELSE IF Len(newPassword) < 6
    THEN "Password must be at least 6 characters long"
  ELSE ""

\* the argument checks, the lookup (which gives `user`) and the code check;
\* the handler goes on to hashPassword only when all three pass
ResetPasswordCheck(s, emailOrPhone, user, resetCode, newPassword) ==
  /\ req[s] = Idle
  /\ IF checkResetArguments(resetCode, newPassword) # ""
       THEN /\ user = NoUser
            /\ UNCHANGED <<req, resetCodeStore, resetPasses>>
       ELSE /\ user \in findUser(emailOrPhone)
            /\ IF user = NoUser
                 THEN UNCHANGED <<req, resetCodeStore, resetPasses>>
                 ELSE LET checked == checkResetCode(user.id, resetCode)
                      IN /\ resetCodeStore' = checked.store
                         /\ IF checked.error # ""
                              THEN UNCHANGED <<req, resetPasses>>
                              ELSE /\ req' = [req EXCEPT ![s] =
                                        [op |-> "resetPassword", pc |-> "update",
                                         userId |-> user.id,
                                         resetCode |-> resetCode,
                                         newPassword |-> newPassword,
                                         updateResult |-> Failure("")]]
                                   /\ resetPasses' =
                                        MapSet(resetPasses, user.id,
                                               Bump(ResetPassesOf(user.id)))
  /\ UNCHANGED <<users, otpStore, otpPasses, now>>

\* what POST /reset-password checks before it calls the service: the error of
\* its 400 response, "" when the body passes
checkResetRoute(emailOrPhone, resetCode, newPassword) ==
  IF emailOrPhone = <<>> \/ resetCode = "" \/ newPassword = ""
    THEN "Email/phone, reset code, and new password are required"
  ELSE IF Len(newPassword) < 6
    THEN "Password must be at least 6 characters long"
  ELSE ""

ResetRequest(emailOrPhone, resetCode, newPassword) ==
  [op |-> "resetPassword", pc |-> "done", emailOrPhone |-> emailOrPhone,
   resetCode |-> resetCode, newPassword |-> newPassword,
   status |-> 400, result |-> ResetReply(FALSE, "", "", "")]

\* POST /reset-password up to the first response it can send or, when every
\* check passes, up to hashPassword: the route's checks, then
\* authService.resetPassword's argument checks, lookup and code check.  A
\* failure is answered with status 400 and the service's envelope.
ResetPasswordRoute(s, emailOrPhone, resetCode, newPassword) ==
  /\ req[s] = Idle
  /\ LET r == ResetRequest(emailOrPhone, resetCode, newPassword)
         Fail(error) == [req EXCEPT ![s] = [r EXCEPT !.result.error = error]]
     IN IF checkResetRoute(emailOrPhone, resetCode, newPassword) # ""
          THEN /\ req' = Fail(checkResetRoute(emailOrPhone, resetCode, newPassword))
               /\ UNCHANGED <<resetCodeStore, resetPasses>>
        ELSE IF checkResetArguments(resetCode, newPassword) # ""
          THEN /\ req' = Fail(checkResetArguments(resetCode, newPassword))
               /\ UNCHANGED <<resetCodeStore, resetPasses>>
        ELSE \E user \in findUser(emailOrPhone) :
               IF user = NoUser
                 THEN /\ req' = Fail("Invalid reset code or user not found")
                      /\ UNCHANGED <<resetCodeStore, resetPasses>>
                 ELSE LET checked == checkResetCode(user.id, resetCode)
                      IN /\ resetCodeStore' = checked.store
                         /\ IF checked.error # ""
                              THEN /\ req' = Fail(checked.error)
                                   /\ UNCHANGED resetPasses
                              ELSE /\ req' = [req EXCEPT ![s] =
                                        [op |-> "resetPassword", pc |-> "update",
                                         userId |-> user.id,
                                         resetCode |-> resetCode,
                                         newPassword |-> newPassword,
                                         updateResult |-> Failure("")]]
                                   /\ resetPasses' =
                                        MapSet(resetPasses, user.id,
                                               Bump(ResetPassesOf(user.id)))
  /\ UNCHANGED <<users, otpStore, otpPasses, now>>

\* hashPassword, then updateUser(user.id, {passwordHash, updatedAt}) at the store
ResetPasswordUpdate(s) ==
  /\ req[s].op = "resetPassword" /\ req[s].pc = "update"
  /\ \E updated \in updateUser(req[s].userId,
                               <<<<"passwordHash", hashPassword(req[s].newPassword)>>,
                                 <<"updatedAt", "resetPassword">>>>) :
       /\ users' = updated.table
       /\ req' = [req EXCEPT ![s].pc = "finish", ![s].updateResult = updated.result]
  /\ UNCHANGED <<otpStore, otpPasses, resetCodeStore, resetPasses, now>>

\* after updateUser has answered: drop the used code, or report the failure
ResetPasswordFinish(s) ==
  /\ req[s].op = "resetPassword" /\ req[s].pc = "finish"
  /\ resetCodeStore' = IF req[s].updateResult.success
                         THEN MapDelete(resetCodeStore, req[s].userId)
                         ELSE resetCodeStore
  /\ req' = [req EXCEPT ![s] = Idle]
  /\ UNCHANGED <<users, otpStore, otpPasses, resetPasses, now>>

\* Date.now() moves on.
Tick ==
  /\ now < MaxTime
  /\ now' = now + 1
  /\ UNCHANGED <<users, req, otpStore, otpPasses, resetCodeStore, resetPasses>>

(***************************************************************************)
(* marketplaceService.purchaseGiftCard: one TransactWriteCommand (the      *)
(* conditional Update of the listing and the Put of the transaction item)  *)
(* run by executeCloudOperation with RETRY_CONFIG.                         *)
(***************************************************************************)
NumCallers == 3
Callers == 1..NumCallers

\* buyerId of each call: calls 1 and 2 come from the same buyer.
BuyerOf(c) == IF c <= 2 THEN "b1" ELSE "b2"

NoBuyer == "none"

AvailableListing == [status |-> "available", buyerId |-> NoBuyer]
SoldListing == [status |-> "sold", buyerId |-> "b0"]
\* no item under the listing id
MissingListing == [status |-> "missing", buyerId |-> NoBuyer]

NotCalled == [pc |-> "idle", attempt |-> 0, success |-> FALSE, error |-> ""]

\* The transaction was cancelled because the condition on the listing failed.
TransactionCanceled ==
  [name |-> "TransactionCanceledException", hasMessage |-> TRUE, fragments |-> {}]

\* The connection dropped before the answer arrived.
ResponseLost ==
  [name |-> "TimeoutError", hasMessage |-> TRUE, fragments |-> {"timeout"}]

\* What becomes of one TransactWriteCommand: it never reaches the store, it is
\* applied and answered, or it is applied and the answer is lost.
TransactOutcomes == {"fault", "answered", "lost"}

\* POST /purchase calls purchaseGiftCard(listingId, buyerId)
PurchaseGiftCard(c) ==
  /\ purchase[c].pc = "idle"
  /\ purchase' = [purchase EXCEPT ![c].pc = "call"]
  /\ UNCHANGED <<listing, transactions>>

\* retryWithBackoff's catch block for call c
PurchaseCaught(c, error) ==
  IF isNonRetryableError(error) \/ purchase[c].attempt = RETRY_CONFIG.maxRetries
    THEN [purchase EXCEPT ![c].pc = "done", ![c].success = FALSE,
                          ![c].error = handleCloudError(error).error]
    ELSE [purchase EXCEPT ![c].pc = "sleep"]

\* A purchase whose Update carries no ConditionExpression.
TransactWriteUnconditional(c, outcome) ==
  /\ purchase[c].pc = "call"
  /\ IF outcome = "fault"
       THEN /\ purchase' = PurchaseCaught(c, TransientError)
            /\ UNCHANGED <<listing, transactions>>
       ELSE /\ listing' = [status |-> "sold", buyerId |-> BuyerOf(c)]
            /\ transactions' = transactions \cup
                 {[buyerId |-> BuyerOf(c), call |-> c, attempt |-> purchase[c].attempt]}
            /\ purchase' = IF outcome = "answered"
                             THEN [purchase EXCEPT ![c].pc = "done", ![c].success = TRUE]
                             ELSE PurchaseCaught(c, ResponseLost)

\* One invocation of the operation: dynamodb.send(new TransactWriteCommand).
\* The store applies both writes or, when the listing's status is not
\* 'available', neither.
TransactWrite(c, outcome) ==
  /\ purchase[c].pc = "call"
  /\ IF outcome = "fault"
       THEN /\ purchase' = PurchaseCaught(c, TransientError)
            /\ UNCHANGED <<listing, transactions>>
     ELSE IF listing.status # "available"
       THEN /\ purchase' = PurchaseCaught(c, IF outcome = "answered"
                                               THEN TransactionCanceled
                                               ELSE ResponseLost)
            /\ UNCHANGED <<listing, transactions>>
     ELSE /\ listing' = [status |-> "sold", buyerId |-> BuyerOf(c)]
          /\ transactions' = transactions \cup
               {[buyerId |-> BuyerOf(c), call |-> c, attempt |-> purchase[c].attempt]}
          /\ purchase' = IF outcome = "answered"
                           THEN [purchase EXCEPT ![c].pc = "done", ![c].success = TRUE]
                           ELSE PurchaseCaught(c, ResponseLost)

\* the sleep between two attempts of call c
PurchaseSleep(c) ==
  /\ purchase[c].pc = "sleep"
  /\ purchase' = [purchase EXCEPT ![c].pc = "call", ![c].attempt = @ + 1]
  /\ UNCHANGED <<listing, transactions>>

(***************************************************************************)
(* Specifications.  Each runs one part of the program from a state the     *)
(* program can be in and leaves the other parts' variables alone.          *)
(***************************************************************************)
RetryQuiet ==
  /\ policy = RETRY_CONFIG
  /\ retryPc = "call"
  /\ attempt = 0
  /\ calls = 0
  /\ delays = <<>>
  /\ lastError = NoError
  /\ surfaced = NoError
  /\ envelope = NoEnvelope
  /\ allRetryable = TRUE

AuthQuiet ==
  /\ users = <<>>
  /\ req = [s \in Slots |-> Idle]

CodesQuiet ==
  /\ otpStore = EmptyMap
  /\ resetCodeStore = EmptyMap
  /\ now = 0
  /\ otpPasses = EmptyMap
  /\ resetPasses = EmptyMap

MarketQuiet ==
  /\ listing = AvailableListing
  /\ transactions = {}
  /\ purchase = [c \in Callers |-> NotCalled]

\* One retry sequence of executeCloudOperation.
RetryNext ==
  \/ InvokeReturns /\ UNCHANGED <<authVars, codeVars, marketVars>>
  \/ \E error \in Errors : InvokeThrows(error) /\ UNCHANGED <<authVars, codeVars, marketVars>>
  \/ Sleep /\ UNCHANGED <<authVars, codeVars, marketVars>>

InitRetry == RetryInit /\ AuthQuiet /\ CodesQuiet /\ MarketQuiet

SpecRetry == InitRetry /\ [][RetryNext]_vars

\* The event loop runs every settled promise's continuation and every due
\* timer, and an invocation of the operation settles: a step of the retry
\* sequence that can happen eventually happens.
SpecRetryLive == SpecRetry /\ WF_vars(RetryNext)

\* Concurrent purchases of one listing, which is for sale, sold or absent.
InitMarket ==
  /\ listing \in {AvailableListing, SoldListing, MissingListing}
  /\ transactions = {}
  /\ purchase = [c \in Callers |-> NotCalled]
  /\ RetryQuiet
  /\ AuthQuiet
  /\ CodesQuiet

MarketNext ==
  \/ \E c \in Callers : PurchaseGiftCard(c) /\ UNCHANGED <<retryVars, authVars, codeVars>>
  \/ \E c \in Callers, outcome \in TransactOutcomes :
       TransactWrite(c, outcome) /\ UNCHANGED <<retryVars, authVars, codeVars>>
  \/ \E c \in Callers : PurchaseSleep(c) /\ UNCHANGED <<retryVars, authVars, codeVars>>

SpecMarket == InitMarket /\ [][MarketNext]_vars

\* Concurrent registrations on an empty table.
InitRegister ==
  /\ users = <<>>
  /\ req = [s \in Slots |-> Idle]
  /\ RetryQuiet
  /\ MarketQuiet
  /\ CodesQuiet

RegisterNext ==
  \/ \E s \in Slots, userData \in RegisterBodies :
       RegisterWithEmailLookup(s, userData) /\ UNCHANGED <<retryVars, codeVars, marketVars>>
  \/ \E s \in Slots : RegisterWithEmailCreate(s) /\ UNCHANGED <<retryVars, codeVars, marketVars>>
  \/ \E s \in Slots, userData \in GoogleBodies :
       RegisterWithGoogleLookupEmail(s, userData) /\ UNCHANGED <<retryVars, codeVars, marketVars>>
  \/ \E s \in Slots : RegisterWithGoogleLookupId(s) /\ UNCHANGED <<retryVars, codeVars, marketVars>>
  \/ \E s \in Slots : RegisterWithGoogleCreate(s) /\ UNCHANGED <<retryVars, codeVars, marketVars>>
  \/ \E s \in Slots : Respond(s) /\ UNCHANGED <<retryVars, codeVars, marketVars>>

SpecRegister == InitRegister /\ [][RegisterNext]_vars

\* Registration with request bodies of any shape: the password present, empty
\* or missing; the googleId present or missing (null).
InitBodies ==
  /\ users = <<>>
  /\ req = [s \in Slots |-> Idle]
  /\ RetryQuiet
  /\ MarketQuiet
  /\ CodesQuiet

AnyRegisterBodies ==
  [email : {EmailA}, password : {"secret1", "", UndefinedPassword}, phone : {NoPhone}]

AnyGoogleBodies == [email : {EmailA, EmailG}, googleId : {"g1", NoGoogleId}]

BodiesNext ==
  \/ \E s \in Slots, userData \in AnyRegisterBodies :
       RegisterWithEmailLookup(s, userData) /\ UNCHANGED <<retryVars, codeVars, marketVars>>
  \/ \E s \in Slots : RegisterWithEmailCreate(s) /\ UNCHANGED <<retryVars, codeVars, marketVars>>
  \/ \E s \in Slots, userData \in AnyGoogleBodies :
       RegisterWithGoogleLookupEmail(s, userData) /\ UNCHANGED <<retryVars, codeVars, marketVars>>
  \/ \E s \in Slots : RegisterWithGoogleLookupId(s) /\ UNCHANGED <<retryVars, codeVars, marketVars>>
  \/ \E s \in Slots : RegisterWithGoogleCreate(s) /\ UNCHANGED <<retryVars, codeVars, marketVars>>
  \/ \E s \in Slots : Respond(s) /\ UNCHANGED <<retryVars, codeVars, marketVars>>

SpecBodies == InitBodies /\ [][BodiesNext]_vars

\* Concurrent logins and password changes on a table that holds an account of
\* each kind: a SHA-256 digest, a bcrypt digest, no digest.
InitLogin ==
  /\ users = <<LegacyUser, PasswordUser, GoogleUser>>
  /\ req = [s \in Slots |-> Idle]
  /\ RetryQuiet
  /\ MarketQuiet
  /\ CodesQuiet

LoginEmails == {EmailA, EmailUpperA, EmailB, EmailG, EmailZ}

LoginNext ==
  \/ \E s \in Slots, email \in LoginEmails, password \in Passwords :
       LoginWithEmailLookup(s, email, password) /\ UNCHANGED <<retryVars, codeVars, marketVars>>
  \/ \E s \in Slots : LoginWithEmailUpdate(s) /\ UNCHANGED <<retryVars, codeVars, marketVars>>
  \/ \E s \in Slots, userId \in 1..MaxUsers + 1, currentPassword \in Passwords :
       ChangePasswordLookup(s, userId, currentPassword, "secret2")
         /\ UNCHANGED <<retryVars, codeVars, marketVars>>
  \/ \E s \in Slots : ChangePasswordUpdate(s) /\ UNCHANGED <<retryVars, codeVars, marketVars>>
  \/ \E s \in Slots : Respond(s) /\ UNCHANGED <<retryVars, codeVars, marketVars>>

SpecLogin == InitLogin /\ [][LoginNext]_vars

\* Searches, reads and profile updates next to logins and password changes, on
\* a table that holds an account of each kind.
InitProfile ==
  /\ users = <<LegacyUser, PasswordUser, GoogleUser>>
  /\ req = [s \in Slots |-> Idle]
  /\ RetryQuiet
  /\ MarketQuiet
  /\ CodesQuiet

Queries == {<<"google:", "g1">>, <<"google:", "g9">>, <<"a">>, <<"@", "x">>, <<"q">>}

ProfileUpdates ==
  {<< <<"isVerified", TRUE>> >>,
   << <<"passwordHash", hashPassword("wrong1")>> >>,
   << <<"updatedAt", "profile">> >>}

ProfileNext ==
  \/ \E s \in Slots, query \in Queries :
       GetUsers(s, query) /\ UNCHANGED <<retryVars, codeVars, marketVars>>
  \/ \E s \in Slots, userId \in 1..MaxUsers + 1 :
       GetUserRoute(s, userId) /\ UNCHANGED <<retryVars, codeVars, marketVars>>
  \/ \E s \in Slots, userId \in 1..Len(users), updates \in ProfileUpdates :
       UpdateUserProfile(s, userId, updates) /\ UNCHANGED <<retryVars, codeVars, marketVars>>
  \/ \E s \in Slots, email \in {EmailA, EmailG}, password \in Passwords :
       LoginWithEmailLookup(s, email, password) /\ UNCHANGED <<retryVars, codeVars, marketVars>>
  \/ \E s \in Slots : LoginWithEmailUpdate(s) /\ UNCHANGED <<retryVars, codeVars, marketVars>>
  \/ \E s \in Slots, userId \in {2, 3}, currentPassword \in Passwords :
       ChangePasswordLookup(s, userId, currentPassword, "secret2")
         /\ UNCHANGED <<retryVars, codeVars, marketVars>>
  \/ \E s \in Slots : ChangePasswordUpdate(s) /\ UNCHANGED <<retryVars, codeVars, marketVars>>
  \/ \E s \in Slots : Respond(s) /\ UNCHANGED <<retryVars, codeVars, marketVars>>

SpecProfile == InitProfile /\ [][ProfileNext]_vars

\* One-time codes: OTP logins and password resets running side by side while
\* the clock advances.
InitCodes ==
  /\ users = <<LegacyUser, PasswordUser, GoogleUser>>
  /\ req = [s \in Slots |-> Idle]
  /\ otpStore = EmptyMap
  /\ resetCodeStore = EmptyMap
  /\ now = 0
  /\ otpPasses = EmptyMap
  /\ resetPasses = EmptyMap
  /\ RetryQuiet
  /\ MarketQuiet

OtpPhones == {LocalPhone, IntlPhone}

ResetIdentities == {EmailA, IntlPhone, EmailG}

FoundUsers == Range(users) \cup {NoUser}

NewPasswords == {"secret2", "short"}

CodesNext ==
  \/ \E phoneNumber \in OtpPhones, code \in Codes :
       SendOtp(phoneNumber, code) /\ UNCHANGED <<retryVars, marketVars>>
  \/ \E phoneNumber \in OtpPhones, code \in Codes :
       VerifyOtp(phoneNumber, code) /\ UNCHANGED <<retryVars, marketVars>>
  \/ \E s \in Slots, phoneNumber \in OtpPhones, code \in Codes :
       LoginWithPhoneVerify(s, phoneNumber, code) /\ UNCHANGED <<retryVars, marketVars>>
  \/ \E s \in Slots : LoginWithPhoneFinish(s) /\ UNCHANGED <<retryVars, marketVars>>
  \/ CleanupExpiredOTPs /\ UNCHANGED <<retryVars, marketVars>>
  \/ \E emailOrPhone \in ResetIdentities, resetCode \in Codes :
       RequestPasswordReset(emailOrPhone, resetCode) /\ UNCHANGED <<retryVars, marketVars>>
  \/ \E s \in Slots, emailOrPhone \in ResetIdentities, user \in FoundUsers,
        resetCode \in Codes, newPassword \in NewPasswords :
       ResetPasswordCheck(s, emailOrPhone, user, resetCode, newPassword)
         /\ UNCHANGED <<retryVars, marketVars>>
  \/ \E s \in Slots : ResetPasswordUpdate(s) /\ UNCHANGED <<retryVars, marketVars>>
  \/ \E s \in Slots : ResetPasswordFinish(s) /\ UNCHANGED <<retryVars, marketVars>>
  \/ Tick /\ UNCHANGED <<retryVars, marketVars>>

SpecCodes == InitCodes /\ [][CodesNext]_vars

\* Phone lookups: one account whose phone is stored in either form that
\* normalizePhoneNumber produces, and OTP logins from the ways of writing
\* that number.
BarePhone == <<"5", "4">>
DashedPhone == <<"0", "-", "5", "4">>
IntlNoTrunkPhone == <<"+", "9", "7", "2", "5", "4">>

PhoneInputs == {LocalPhone, BarePhone, DashedPhone, IntlPhone, IntlNoTrunkPhone}

StoredPhones == {normalizePhoneNumber(p) : p \in PhoneInputs}

InitPhone ==
  /\ users \in {<<[PasswordUser EXCEPT !.id = 1, !.phone = p]>> : p \in StoredPhones}
  /\ req = [s \in Slots |-> Idle]
  /\ CodesQuiet
  /\ RetryQuiet
  /\ MarketQuiet

PhoneNext ==
  \/ \E phoneNumber \in PhoneInputs, code \in Codes :
       SendOtp(phoneNumber, code) /\ UNCHANGED <<retryVars, marketVars>>
  \/ \E phoneNumber \in PhoneInputs, code \in Codes :
       VerifyOtp(phoneNumber, code) /\ UNCHANGED <<retryVars, marketVars>>
  \/ \E s \in Slots, phoneNumber \in PhoneInputs, code \in Codes :
       LoginWithPhoneVerify(s, phoneNumber, code) /\ UNCHANGED <<retryVars, marketVars>>
  \/ \E s \in Slots : LoginWithPhoneFinish(s) /\ UNCHANGED <<retryVars, marketVars>>
  \/ CleanupExpiredOTPs /\ UNCHANGED <<retryVars, marketVars>>
  \/ Tick /\ UNCHANGED <<retryVars, marketVars>>

SpecPhone == InitPhone /\ [][PhoneNext]_vars

\* The password-reset request route with its responses kept: callers ask for
\* a reset for identifiers of a password account with a phone, one without a
\* phone, a Google-only account, nobody, and with no identifier at all.
InitForgot ==
  /\ users = <<LegacyUser, PasswordUser, GoogleUser>>
  /\ req = [s \in Slots |-> Idle]
  /\ RetryQuiet
  /\ MarketQuiet
  /\ CodesQuiet

ForgotIdentities == {EmailA, EmailB, IntlPhone, EmailG, EmailZ, <<>>}

ResetRouteIdentities == {EmailA, EmailZ}

ForgotNext ==
  \/ \E s \in Slots, emailOrPhone \in ForgotIdentities, resetCode \in Codes,
        awsEnabled \in BOOLEAN, sms \in SmsOutcomes :
       ForgotPassword(s, emailOrPhone, resetCode, awsEnabled, sms)
         /\ UNCHANGED <<retryVars, marketVars>>
  \/ \E s \in Slots, emailOrPhone \in ResetRouteIdentities,
        resetCode \in Codes \cup {""}, newPassword \in NewPasswords :
       ResetPasswordRoute(s, emailOrPhone, resetCode, newPassword)
         /\ UNCHANGED <<retryVars, marketVars>>
  \/ \E s \in Slots : ResetPasswordUpdate(s) /\ UNCHANGED <<retryVars, marketVars>>
  \/ \E s \in Slots : ResetPasswordFinish(s) /\ UNCHANGED <<retryVars, marketVars>>
  \/ \E s \in Slots : Respond(s) /\ UNCHANGED <<retryVars, codeVars, marketVars>>

SpecForgot == InitForgot /\ [][ForgotNext]_vars

\* Reset requests alone, while time passes.
ResetRequestNext ==
  \/ \E s \in Slots, emailOrPhone \in ForgotIdentities, resetCode \in Codes,
        awsEnabled \in BOOLEAN, sms \in SmsOutcomes :
       ForgotPassword(s, emailOrPhone, resetCode, awsEnabled, sms)
         /\ UNCHANGED <<retryVars, marketVars>>
  \/ \E s \in Slots : Respond(s) /\ UNCHANGED <<retryVars, codeVars, marketVars>>
  \/ Tick /\ UNCHANGED <<retryVars, marketVars>>

SpecResetRequest == InitForgot /\ [][ResetRequestNext]_vars

\* The OTP routes with their responses kept: callers use a registered phone
\* in both notations, a phone no account has, and no phone at all.
InitOtpRoutes ==
  /\ users = <<LegacyUser, PasswordUser, GoogleUser>>
  /\ req = [s \in Slots |-> Idle]
  /\ RetryQuiet
  /\ MarketQuiet
  /\ CodesQuiet

OtherPhone == <<"0", "5", "5">>

RoutePhones == {LocalPhone, IntlPhone, OtherPhone, <<>>}

OtpRoutesNext ==
  \/ \E s \in Slots, phoneNumber \in RoutePhones, code \in Codes,
        awsEnabled \in BOOLEAN, sms \in SmsOutcomes :
       SendOtpRoute(s, phoneNumber, code, awsEnabled, sms) /\ UNCHANGED <<retryVars, marketVars>>
  \/ \E s \in Slots, phoneNumber \in RoutePhones, code \in Codes \cup {""} :
       LoginWithPhoneRouteVerify(s, phoneNumber, code) /\ UNCHANGED <<retryVars, marketVars>>
  \/ \E s \in Slots, phoneNumber \in RoutePhones, code \in Codes \cup {""} :
       VerifyOtpRoute(s, phoneNumber, code) /\ UNCHANGED <<retryVars, marketVars>>
  \/ \E s \in Slots : LoginWithPhoneRouteFinish(s) /\ UNCHANGED <<retryVars, marketVars>>
  \/ \E s \in Slots : Respond(s) /\ UNCHANGED <<retryVars, codeVars, marketVars>>
  \/ CleanupExpiredOTPs /\ UNCHANGED <<retryVars, marketVars>>
  \/ Tick /\ UNCHANGED <<retryVars, marketVars>>

SpecOtpRoutes == InitOtpRoutes /\ [][OtpRoutesNext]_vars


(***************************************************************************)
(* C5: an operation that raises a retryable error on every invocation is   *)
(* invoked exactly maxRetries + 1 times, and the delays slept between the  *)
(* invocations are non-decreasing and never exceed maxDelay.               *)
(***************************************************************************)
C5_AlwaysRetryableExhausts ==
  allRetryable =>
    /\ NonDecreasing(delays)
    /\ \A i \in 1..Len(delays) : delays[i] <= policy.maxDelay
    /\ calls <= policy.maxRetries + 1
    /\ retryPc = "thrown" =>
         /\ calls = policy.maxRetries + 1
         /\ Len(delays) = policy.maxRetries

C5_Witness ==
  /\ allRetryable
  /\ retryPc = "thrown"
  /\ policy = RETRY_CONFIG
  /\ calls = 4
  /\ delays = <<1000, 2000, 4000>>

(***************************************************************************)
(* C6: an error of the authorization, validation or not-found family       *)
(* aborts the sequence at once: it is the error surfaced, no delay is      *)
(* slept after it and no invocation follows it.  Every other error is      *)
(* retried while attempts remain.                                          *)
(***************************************************************************)
C6_NonRetryableNames ==
  {"UnauthorizedOperation", "InvalidUserID.NotFound", "ValidationException",
   "ResourceNotFoundException"}

C6_NonRetryableFragments == {"Unauthorized", "InvalidParameterValue", "does not exist"}

C6_Classified(e) ==
  \/ e.name \in C6_NonRetryableNames
  \/ e.hasMessage /\ e.fragments \cap C6_NonRetryableFragments # {}

C6_NonRetryableAborts ==
  (calls > 0 /\ retryPc # "returned") =>
    IF C6_Classified(lastError)
      THEN /\ retryPc = "thrown"
           /\ surfaced = lastError
           /\ Len(delays) = calls - 1
           /\ attempt = calls - 1
      ELSE \/ retryPc = "sleep" /\ Len(delays) = calls - 1
           \/ retryPc = "call" /\ Len(delays) = calls
           \/ retryPc = "thrown" /\ attempt = policy.maxRetries /\ surfaced = lastError

C6_Witness ==
  /\ retryPc = "thrown"
  /\ calls = 2
  /\ attempt < policy.maxRetries
  /\ lastError.name = "ValidationException"
  /\ delays = <<1000>>

(***************************************************************************)
(* C4: a digest in the former format (64 hexadecimal characters) never     *)
(* verifies, whatever the password: loginWithEmail on such an account      *)
(* returns the invalid-credentials failure and changePassword rejects the  *)
(* current password.                                                       *)
(***************************************************************************)
C4_AnyPassword == Passwords \cup {"secret2"}

C4_IsLegacyFormat(hash) == hash.scheme = "sha256"

C4_LegacyDigestNeverVerifies ==
  /\ \A p, q \in C4_AnyPassword : ~verifyPassword(p, legacyHashPassword(q))
  /\ \A s \in Slots :
       (/\ req[s].op = "login"
        /\ req[s].user # NoUser
        /\ C4_IsLegacyFormat(req[s].user.passwordHash))
         => /\ req[s].pc = "done"
            /\ req[s].result = Failure("Invalid email or password")
  /\ \A s \in Slots :
       (/\ req[s].op = "changePassword"
        /\ req[s].user # NoUser
        /\ C4_IsLegacyFormat(req[s].user.passwordHash))
         => /\ req[s].pc = "done"
            /\ req[s].result = Failure("Current password is incorrect")

\* both operations have run against the legacy account with its right password
C4_Witness ==
  \E s, t \in Slots :
    /\ req[s].op = "login" /\ req[s].pc = "done"
    /\ req[s].user = LegacyUser /\ req[s].password = "secret1"
    /\ req[t].op = "changePassword" /\ req[t].pc = "done"
    /\ req[t].user = LegacyUser /\ req[t].currentPassword = "secret1"

(***************************************************************************)
(* C10: loginWithEmail returns the same failure envelope, {success: false, *)
(* error: 'Invalid email or password'}, when the email resolves to no      *)
(* user, when the user's digest is null and when the password does not     *)
(* verify, and a login that fails so leaves the store as it was.           *)
(***************************************************************************)
C10_PasswordMatches(password, hash) == hash.scheme = "bcrypt" /\ hash.pw = password

C10_FailureCase(r) ==
  \/ r.user = NoUser
  \/ r.user.passwordHash = NullDigest
  \/ ~C10_PasswordMatches(r.password, r.user.passwordHash)

C10_EnumerationSafe ==
  [][\A s \in Slots :
       (req[s] = Idle /\ req'[s].op = "login" /\ C10_FailureCase(req'[s]))
         => /\ req'[s].pc = "done"
            /\ req'[s].result =
                 [success |-> FALSE, error |-> "Invalid email or password",
                  user |-> NoUser]
            /\ users' = users]_vars

\* a login on the Google-only account beside one with a wrong password
C10_Witness ==
  \E s, t \in Slots :
    /\ req[s].op = "login" /\ req[s].pc = "done"
    /\ req[s].user # NoUser /\ req[s].user.passwordHash = NullDigest
    /\ req[t].op = "login" /\ req[t].pc = "done"
    /\ req[t].user = PasswordUser /\ req[t].password = "wrong1"
    /\ req[s].result = req[t].result

(***************************************************************************)
(* C7: a registerWithEmail call made when a record with that email (up to  *)
(* case) is already stored returns the duplicate-email failure and never   *)
(* reaches createUser.                                                     *)
(***************************************************************************)
C7_SecondRegistrationRejected ==
  \A s \in Slots :
    (req[s].op = "register" /\ req[s].emailTaken)
      => /\ req[s].pc = "done"
         /\ req[s].result = Failure("User already exists with this email")

(***************************************************************************)
(* C8: no two user records have the same lower-cased email, whatever the   *)
(* interleaving of registerWithEmail and registerWithGoogle calls.         *)
(***************************************************************************)
C8_EmailUnique ==
  \A i, j \in 1..Len(users) :
    i # j => ToLowerCase(users[i].email) # ToLowerCase(users[j].email)

(***************************************************************************)
(* C9: every stored phone is in canonical form and no two user records     *)
(* have phones with the same canonical form.                               *)
(***************************************************************************)
C9_PhoneCanonicalUnique ==
  /\ \A i \in 1..Len(users) :
       users[i].phone # NoPhone => normalizePhoneNumber(users[i].phone) = users[i].phone
  /\ \A i, j \in 1..Len(users) :
       (i # j /\ users[i].phone # NoPhone /\ users[j].phone # NoPhone)
         => normalizePhoneNumber(users[i].phone) # normalizePhoneNumber(users[j].phone)

(***************************************************************************)
(* C2: an OTP verifies exactly once.  Through /verify-otp and through      *)
(* /login-with-phone alike, a verification succeeds exactly when the store *)
(* holds the presented code for the normalized phone and the code has not  *)
(* expired; a success removes the code, so that between two sendOTP calls  *)
(* for a phone at most one verification succeeds.                          *)
(***************************************************************************)
C2_Live(key, code) ==
  /\ key \in DOMAIN otpStore
  /\ otpStore[key].code = code
  /\ ~(now > otpStore[key].expiresAt)

C2_OtpVerifiesExactlyOnce ==
  /\ [](/\ \A phoneNumber \in OtpPhones, code \in Codes :
             LET key == normalizePhoneNumber(phoneNumber)
             IN /\ verifyOTP(key, code).valid = C2_Live(key, code)
                /\ C2_Live(key, code) => key \notin DOMAIN verifyOTP(key, code).store
        /\ \A k \in DOMAIN otpPasses : otpPasses[k] <= 1)
  /\ [][\A phoneNumber \in OtpPhones, code \in Codes :
          LET key == normalizePhoneNumber(phoneNumber)
          IN /\ VerifyOtp(phoneNumber, code) =>
                  (C2_Live(key, code) => key \notin DOMAIN otpStore')
             /\ \A s \in Slots :
                  LoginWithPhoneVerify(s, phoneNumber, code) =>
                    /\ (req'[s] # Idle) = C2_Live(key, code)
                    /\ C2_Live(key, code) => key \notin DOMAIN otpStore']_vars

\* A login by phone has used the code sent to the phone, and the code is gone.
C2_Witness ==
  \E s \in Slots :
    /\ req[s].op = "loginWithPhone"
    /\ req[s].normalizedPhone \in DOMAIN otpPasses
    /\ otpPasses[req[s].normalizedPhone] = 1
    /\ req[s].normalizedPhone \notin DOMAIN otpStore

(***************************************************************************)
(* C3: a code presented after its time to live fails and is removed.       *)
(* verifyOTP on an expired code returns false and deletes the entry, on    *)
(* either route; resetPassword, given arguments that pass its checks and a *)
(* user whose reset code has expired, returns the expired-code error,      *)
(* deletes the entry, leaves the users table as it was and does not go on  *)
(* to the update.                                                          *)
(***************************************************************************)
C3_ExpiredError == "Reset code has expired. Please request a new one."

C3_ExpiredCodeFailsAndIsRemoved ==
  /\ [](/\ \A key \in DOMAIN otpStore, code \in Codes :
             now > otpStore[key].expiresAt =>
               /\ ~verifyOTP(key, code).valid
               /\ key \notin DOMAIN verifyOTP(key, code).store
        /\ \A u \in DOMAIN resetCodeStore, resetCode \in Codes :
             now > resetCodeStore[u].expiresAt =>
               /\ checkResetCode(u, resetCode).error = C3_ExpiredError
               /\ u \notin DOMAIN checkResetCode(u, resetCode).store)
  /\ [][/\ \A phoneNumber \in OtpPhones, code \in Codes :
             LET key == normalizePhoneNumber(phoneNumber)
             IN (key \in DOMAIN otpStore /\ now > otpStore[key].expiresAt) =>
                  /\ VerifyOtp(phoneNumber, code) =>
                       key \notin DOMAIN otpStore' /\ otpPasses' = otpPasses
                  /\ \A s \in Slots :
                       LoginWithPhoneVerify(s, phoneNumber, code) =>
                         /\ key \notin DOMAIN otpStore'
                         /\ otpPasses' = otpPasses
                         /\ req' = req
        /\ \A s \in Slots, emailOrPhone \in ResetIdentities,
              user \in FoundUsers \ {NoUser}, resetCode \in Codes,
              newPassword \in NewPasswords :
             ( /\ user.id \in DOMAIN resetCodeStore
               /\ now > resetCodeStore[user.id].expiresAt
               /\ checkResetArguments(resetCode, newPassword) = ""
               /\ ResetPasswordCheck(s, emailOrPhone, user, resetCode, newPassword) ) =>
                  /\ user.id \notin DOMAIN resetCodeStore'
                  /\ users' = users
                  /\ req' = req
                  /\ resetPasses' = resetPasses]_vars

\* Past the reset codes' time to live, a code of each store that was issued
\* and never accepted is no longer stored.
C3_Witness ==
  /\ now > ResetTtl
  /\ \E u \in DOMAIN resetPasses :
       resetPasses[u] = 0 /\ u \notin DOMAIN resetCodeStore
  /\ \E k \in DOMAIN otpPasses :
       otpPasses[k] = 0 /\ k \notin DOMAIN otpStore

(***************************************************************************)
(* C1: a reset code is single-use under concurrent resetPassword calls.    *)
(* Of the resetPassword calls that present the code stored for a user, at  *)
(* most one passes the code check before requestPasswordReset stores       *)
(* another code for that user.                                             *)
(***************************************************************************)
C1_ResetCodeSingleUse ==
  \A u \in DOMAIN resetPasses : resetPasses[u] <= 1

(***************************************************************************)
(* C11: a verification with a wrong code fails and leaves the store        *)
(* unchanged.  verifyOTP given a code other than the stored, unexpired one *)
(* returns false and keeps the entry; resetPassword given such a code      *)
(* returns the invalid-code failure and keeps the entry and the users      *)
(* table; and a resetPassword call that then presents the stored code and  *)
(* passes the code check is not refused by the store as invalid data (it   *)
(* succeeds unless the store has a transient fault).                       *)
(***************************************************************************)
C11_WrongCodeLeavesStore ==
  /\ [](/\ \A key \in DOMAIN otpStore, code \in Codes :
             (~(now > otpStore[key].expiresAt) /\ code # otpStore[key].code) =>
               /\ ~verifyOTP(key, code).valid
               /\ verifyOTP(key, code).store = otpStore
        /\ \A u \in DOMAIN resetCodeStore, resetCode \in Codes :
             ( /\ ~(now > resetCodeStore[u].expiresAt)
               /\ resetCode # resetCodeStore[u].code ) =>
               /\ checkResetCode(u, resetCode).error = "Invalid reset code"
               /\ checkResetCode(u, resetCode).store = resetCodeStore)
  /\ [][\A s \in Slots :
          ResetPasswordFinish(s) =>
            req[s].updateResult.error # handleCloudError(ValidationError).error]_vars

(***************************************************************************)
(* C12: phone lookup converges regardless of stored format.  For any two   *)
(* ways a and b of writing the number, the formats getUserByPhone scans    *)
(* for a (after the route's normalizePhoneNumber) include the form         *)
(* normalizePhoneNumber gives b, and the account stored under that form is *)
(* what the lookup for a returns when its scans succeed.                   *)
(***************************************************************************)
C12_PhoneLookupConverges ==
  \A a \in PhoneInputs, b \in PhoneInputs :
    /\ \E i \in 1..Len(searchFormats(normalizePhoneNumber(a))) :
         searchFormats(normalizePhoneNumber(a))[i] = normalizePhoneNumber(b)
    /\ \A u \in Range(users) :
         u.phone = normalizePhoneNumber(b) =>
           Ok(u) \in getUserByPhone(normalizePhoneNumber(a))

(***************************************************************************)
(* C13: each code store holds one code per key, the one issued last.       *)
(* Issuing for a key that has a record replaces the record by the new code *)
(* with a fresh expiry and touches no other key; and a stored, unexpired   *)
(* record verifies with its own code and with no other, so that after a    *)
(* reissue the new code passes verification and a different earlier one    *)
(* does not.                                                               *)
(***************************************************************************)
C13_OneLiveCodePerKey ==
  /\ \A key \in DOMAIN otpStore, issued \in Codes :
       LET store == sendOTP(key, TRUE, issued, TRUE, "sent").store
       IN /\ DOMAIN store = DOMAIN otpStore
          /\ store[key] = [code |-> issued, expiresAt |-> now + OtpTtl]
          /\ \A k \in DOMAIN otpStore \ {key} : store[k] = otpStore[k]
  /\ \A key \in DOMAIN otpStore, code \in Codes :
       ~(now > otpStore[key].expiresAt) =>
         (verifyOTP(key, code).valid <=> code = otpStore[key].code)
  /\ \A u \in DOMAIN resetCodeStore, issued \in Codes :
       LET store == requestPasswordReset(users[u], issued, TRUE, "sent").store
       IN /\ DOMAIN store = DOMAIN resetCodeStore
          /\ store[u].code = issued
          /\ store[u].expiresAt = now + ResetTtl
          /\ \A k \in DOMAIN resetCodeStore \ {u} : store[k] = resetCodeStore[k]
  /\ \A u \in DOMAIN resetCodeStore, resetCode \in Codes :
       ~(now > resetCodeStore[u].expiresAt) =>
         (checkResetCode(u, resetCode).error = "" <=> resetCode = resetCodeStore[u].code)

\* Before any code can have expired, a code has been issued again: one
\* resetPassword call passed the check on the earlier reset code and is still
\* running, and a login used the earlier OTP, while each store holds a code
\* that nothing has been verified against.
C13_Witness ==
  /\ now < OtpTtl
  /\ \E s \in Slots :
       /\ req[s].op = "resetPassword"
       /\ req[s].userId \in DOMAIN resetCodeStore
       /\ resetPasses[req[s].userId] = 0
  /\ \E s \in Slots :
       /\ req[s].op = "loginWithPhone"
       /\ req[s].normalizedPhone \in DOMAIN otpStore
       /\ otpPasses[req[s].normalizedPhone] = 0

(***************************************************************************)
(* C14: the periodic sweep deletes every expired record of both code       *)
(* stores and no unexpired one.  After a run of the sweep neither otpStore *)
(* nor resetCodeStore holds a record whose expiry has passed, and every    *)
(* record whose expiry has not passed is still there.                      *)
(***************************************************************************)
C14_SweepCoversBothStores ==
  [][CleanupExpiredOTPs =>
       /\ \A k \in DOMAIN otpStore' : ~(now > otpStore'[k].expiresAt)
       /\ \A u \in DOMAIN resetCodeStore' : ~(now > resetCodeStore'[u].expiresAt)
       /\ \A k \in DOMAIN otpStore :
            ~(now > otpStore[k].expiresAt) =>
              k \in DOMAIN otpStore' /\ otpStore'[k] = otpStore[k]
       /\ \A u \in DOMAIN resetCodeStore :
            ~(now > resetCodeStore[u].expiresAt) =>
              u \in DOMAIN resetCodeStore' /\ resetCodeStore'[u] = resetCodeStore[u]]_vars

(***************************************************************************)
(* C15: a failure envelope returned by executeCloudOperation carries       *)
(* success = false and the mapped message only, never the message text of  *)
(* the error that caused it.                                               *)
(***************************************************************************)
C15_EnvelopeHidesCause ==
  retryPc = "thrown" =>
    /\ envelope.success = FALSE
    /\ envelope.error = handleCloudError(surfaced).error
    /\ ~envelope.originalError.hasMessage

(***************************************************************************)
(* C16: registerWithGoogle is register-or-login.  A call whose email or    *)
(* googleId already belongs to a stored user returns that user and stores  *)
(* nothing, so the records created by registerWithGoogle never share a     *)
(* googleId or an email, however often a registration is repeated.         *)
(***************************************************************************)
C16_GoogleRegistrationIdempotent ==
  \A i, j \in 1..Len(users) :
    (i # j /\ users[i].googleId # NoGoogleId /\ users[j].googleId # NoGoogleId)
      => /\ users[i].googleId # users[j].googleId
         /\ users[i].email # users[j].email

(***************************************************************************)
(* C17: a reset request whose identifier resolves to no user, by email or  *)
(* by phone, is answered with success and the generic message; it stores   *)
(* no code and sends nothing.                                              *)
(***************************************************************************)
C17_GenericReply ==
  ResetReply(TRUE, "", "If an account exists, a reset code will be sent", "")

C17_UnknownIdentifierIssuesNothing ==
  /\ [](\A s \in Slots :
          (req[s].op = "forgotPassword" /\ req[s].found = 0
             /\ req[s].result.error # "Email or phone number required")
            => /\ req[s].result = C17_GenericReply
               /\ req[s].status = 200
               /\ ~req[s].smsAttempted)
  /\ [][\A s \in Slots :
          (req[s] = Idle /\ req'[s].op = "forgotPassword" /\ req'[s].found = 0)
            => UNCHANGED <<resetCodeStore, users>>]_vars

C17_Witness ==
  \E s \in Slots :
    /\ req[s].op = "forgotPassword"
    /\ req[s].found = 0
    /\ req[s].result = C17_GenericReply
    /\ 2 \in DOMAIN resetCodeStore
    /\ findUser(EmailZ) = {NoUser}

(***************************************************************************)
(* C18: a reset request does not reveal whether an account exists.  The    *)
(* response to an identifier that resolves to no user and the response to  *)
(* an identifier of a password account are the same: same status, same     *)
(* success flag, same message, same fields.                                *)
(***************************************************************************)
C18_ResetRequestHidesExistence ==
  \A s, t \in Slots :
    (/\ req[s].op = "forgotPassword" /\ req[t].op = "forgotPassword"
     /\ req[s].found = 0
     /\ req[s].result.error # "Email or phone number required"
     /\ req[t].found \in 1..Len(users)
     /\ users[req[t].found].passwordHash # NullDigest)
      => /\ req[s].status = req[t].status
         /\ req[s].result = req[t].result

(***************************************************************************)
(* C19: a reset request for an account that has no password digest (a      *)
(* Google-only account) fails with the reset-not-available error, stores   *)
(* no code and sends nothing.                                              *)
(***************************************************************************)
C19_FoundWithoutDigest(r) ==
  /\ r.op = "forgotPassword"
  /\ r.found \in 1..Len(users)
  /\ users[r.found].passwordHash = NullDigest

C19_GoogleOnlyResetRefused ==
  /\ [](\A s \in Slots :
          C19_FoundWithoutDigest(req[s])
            => /\ req[s].result =
                    ResetReply(FALSE,
                      "This account uses Google sign-in. Password reset is not available.",
                      "", "")
               /\ req[s].status = 400
               /\ ~req[s].smsAttempted
               /\ req[s].found \notin DOMAIN resetCodeStore)
  /\ [][\A s \in Slots :
          (req[s] = Idle /\ C19_FoundWithoutDigest(req'[s]))
            => UNCHANGED <<resetCodeStore, users>>]_vars

C19_Witness ==
  \E s \in Slots :
    /\ C19_FoundWithoutDigest(req[s])
    /\ users[req[s].found] = GoogleUser
    /\ ~req[s].result.success
    /\ 2 \in DOMAIN resetCodeStore

(***************************************************************************)
(* C20: a resetPassword call that presents the live, unexpired, matching   *)
(* code and a password of six characters or more succeeds: the update of   *)
(* the user is accepted, the stored digest is the current-scheme hash of   *)
(* the new password, so that the new password verifies and the old one     *)
(* does not, and the call ends with the code removed from resetCodeStore.  *)
(***************************************************************************)
C20_ResetCompletes ==
  /\ [](\A s \in Slots :
          (req[s].op = "resetPassword" /\ req[s].pc = "finish")
            => /\ req[s].updateResult.success
               /\ users[req[s].userId].passwordHash = hashPassword(req[s].newPassword)
               /\ verifyPassword(req[s].newPassword, users[req[s].userId].passwordHash)
               /\ ~verifyPassword("secret1", users[req[s].userId].passwordHash))
  /\ [][\A s \in Slots :
          ResetPasswordFinish(s) => req[s].userId \notin DOMAIN resetCodeStore']_vars

(***************************************************************************)
(* C21: resetPassword requires a password of six characters or more.  With *)
(* a shorter one the service, and the route before it, return the          *)
(* validation failure without resolving the user or reading the code: the  *)
(* response is the 400 with that error, and resetCodeStore and the users   *)
(* table are as they were, even when the code presented is the live one.   *)
(***************************************************************************)
C21_TooShort == "Password must be at least 6 characters long"

C21_ShortPasswordRejectedFirst ==
  /\ [](\A resetCode \in Codes, newPassword \in NewPasswords :
          Len(newPassword) < 6 =>
            /\ checkResetArguments(resetCode, newPassword) = C21_TooShort
            /\ checkResetRoute(EmailA, resetCode, newPassword) = C21_TooShort)
  /\ [][\A s \in Slots, emailOrPhone \in ResetRouteIdentities, resetCode \in Codes,
           newPassword \in NewPasswords :
          (Len(newPassword) < 6
             /\ ResetPasswordRoute(s, emailOrPhone, resetCode, newPassword))
            => /\ req'[s].pc = "done"
               /\ req'[s].status = 400
               /\ req'[s].result = ResetReply(FALSE, C21_TooShort, "", "")
               /\ UNCHANGED <<resetCodeStore, resetPasses, users>>]_vars

C21_Witness ==
  \E s \in Slots :
    /\ req[s].op = "resetPassword" /\ req[s].pc = "done"
    /\ req[s].newPassword = "short"
    /\ req[s].result.error = C21_TooShort
    /\ req[s].emailOrPhone = EmailA
    /\ PasswordUser.id \in DOMAIN resetCodeStore
    /\ checkResetCode(PasswordUser.id, req[s].resetCode).error = ""

C23_LoginDone(r) == r.op = "loginWithPhone" /\ r.pc = "done"

C23_PhoneLoginOutcomes ==
  /\ [](\A s \in Slots :
          C23_LoginDone(req[s]) =>
            /\ req[s].status \in {200, 400, 401, 404}
            /\ req[s].status = 401 =>
                 /\ req[s].result = OtpReply(FALSE, "Invalid or expired OTP code",
                                             FALSE, NoUser)
                 /\ ~req[s].userRead
            /\ req[s].status = 404 =>
                 /\ ~req[s].result.success
                 /\ req[s].result.needsRegistration
                 /\ req[s].result.user = NoUser
            /\ req[s].status = 200 =>
                 /\ req[s].result.success
                 /\ req[s].userRead
                 /\ req[s].result.user.id \in 1..Len(users)
                 /\ req[s].result.user.phone
                      \in Range(searchFormats(req[s].normalizedPhone))
                 /\ "passwordHash" \notin DOMAIN req[s].result.user)
  /\ [][\A s \in Slots :
          /\ (req[s] = Idle /\ req'[s].op = "loginWithPhone"
                /\ ~(C23_LoginDone(req'[s]) /\ req'[s].status = 400)) =>
               /\ users' = users
               /\ IF verifyOTP(req'[s].normalizedPhone, req'[s].code).valid
                    THEN req'[s].pc = "lookup"
                    ELSE C23_LoginDone(req'[s]) /\ req'[s].status = 401
          /\ (req[s].op = "loginWithPhone" /\ req[s].pc = "lookup"
                /\ C23_LoginDone(req'[s])) =>
               /\ req'[s].status \in {200, 404}
               /\ req'[s].status = 404 => users' = users
               /\ req'[s].status = 200 =>
                    \/ users' = users
                    \/ users' = [users EXCEPT
                                   ![req'[s].result.user.id].lastLoginAt = "login"]
          /\ users' # users =>
               \E t \in Slots :
                 /\ req[t].op = "loginWithPhone" /\ req[t].pc = "lookup"
                 /\ C23_LoginDone(req'[t]) /\ req'[t].status = 200]_vars

C23_Witness ==
  \E s, t \in Slots :
    /\ C23_LoginDone(req[s]) /\ req[s].status = 401
    /\ C23_LoginDone(req[t]) /\ req[t].status = 200
    /\ users[req[t].result.user.id].lastLoginAt = "login"
    /\ req[t].result.user.lastLoginAt # "login"

(***************************************************************************)
(* C24: a failed delivery leaves the code live.  When sendOTP has stored a *)
(* code and the message then does not go out, because SMS is not           *)
(* configured or the send raises, the result is a failure, yet the code is *)
(* in otpStore and verifies; it stays there until it expires, is used, or  *)
(* a reissue replaces it.                                                  *)
(***************************************************************************)
C24_Undelivered(r) ==
  r.op = "sendOtp" /\ r.status = 200 /\ r.userExists /\ r.published = "none"

C24_FailedDeliveryLeavesCodeLive ==
  /\ [](/\ \A s \in Slots :
             C24_Undelivered(req[s]) =>
               /\ ~req[s].result.success
               /\ req[s].result.error \in {"SMS service not configured",
                                           "Failed to send SMS"}
        /\ \A k \in DOMAIN otpStore :
             ~(now > otpStore[k].expiresAt) => verifyOTP(k, otpStore[k].code).valid)
  /\ [][/\ \A s \in Slots :
             (req[s] = Idle /\ C24_Undelivered(req'[s])) =>
               /\ req'[s].normalizedPhone \in DOMAIN otpStore'
               /\ otpStore'[req'[s].normalizedPhone] =
                    [code |-> req'[s].code, expiresAt |-> now + OtpTtl]
        /\ \A k \in DOMAIN otpStore :
             (~(now > otpStore[k].expiresAt)
                /\ (k \notin DOMAIN otpStore' \/ otpStore'[k] # otpStore[k])) =>
               \E s \in Slots :
                 /\ req[s] = Idle
                 /\ req'[s].op \in {"sendOtp", "loginWithPhone", "verifyOtp"}
                 /\ req'[s].normalizedPhone = k
                 /\ req'[s].op = "sendOtp" => req'[s].userExists
                 /\ req'[s].op = "loginWithPhone" => req'[s].pc = "lookup"
                 /\ req'[s].op = "verifyOtp" => req'[s].verified]_vars

C24_Witness ==
  \E s, t \in Slots :
    /\ C24_Undelivered(req[s]) /\ req[s].result.error = "SMS service not configured"
    /\ C24_Undelivered(req[t]) /\ req[t].result.error = "Failed to send SMS"
    /\ req[t].normalizedPhone \in DOMAIN otpStore
    /\ otpStore[req[t].normalizedPhone].code = req[t].code
    /\ now = otpStore[req[t].normalizedPhone].expiresAt
    /\ now > 0
    /\ verifyOTP(req[t].normalizedPhone, req[t].code).valid

(***************************************************************************)
(* C25: the backoff schedule.  The delay slept after the failure of the    *)
(* attempt the loop numbers n (0 for the first invocation) is              *)
(* min(baseDelay * backoffMultiplier^n, maxDelay); one delay is slept per  *)
(* failed attempt that is retried, and when the last allowed attempt fails *)
(* its error is surfaced with no delay after it.                           *)
(***************************************************************************)
RECURSIVE C25_Scaled(_, _, _)
C25_Scaled(base, multiplier, n) ==
  IF n = 0 THEN base ELSE multiplier * C25_Scaled(base, multiplier, n - 1)

C25_Expected(p, n) ==
  IF C25_Scaled(p.baseDelay, p.backoffMultiplier, n) < p.maxDelay
    THEN C25_Scaled(p.baseDelay, p.backoffMultiplier, n)
    ELSE p.maxDelay

C25_BackoffSchedule ==
  /\ \A i \in 1..Len(delays) : delays[i] = C25_Expected(policy, i - 1)
  /\ Len(delays) = attempt
  /\ retryPc = "sleep" => calls = attempt + 1 /\ attempt < policy.maxRetries
  /\ retryPc = "thrown" =>
       /\ surfaced = lastError
       /\ Len(delays) = calls - 1
       /\ ~isNonRetryableError(lastError) => attempt = policy.maxRetries

C25_Witness ==
  /\ retryPc = "thrown"
  /\ policy = [maxRetries |-> 3, baseDelay |-> 4000, maxDelay |-> 10000,
               backoffMultiplier |-> 2]
  /\ delays = <<4000, 8000, 10000>>
  /\ calls = 4
  /\ surfaced.name = "ThrottlingException"

(***************************************************************************)
(* C26: phone normalization round-trips on well-formed numbers.  A local   *)
(* number (digits, leading trunk 0) comes back from                        *)
(* normalizeToLocalFormat(normalizePhoneNumber(l)), and an international   *)
(* number (+972 followed by digits) comes back from                        *)
(* normalizePhoneNumber(normalizeToLocalFormat(i)).                        *)
(***************************************************************************)
C26_Digits == {"0", "1", "2", "3", "4", "5", "6", "7", "8", "9"}

C26_AllDigits(s) == \A i \in 1..Len(s) : s[i] \in C26_Digits

C26_WellFormedLocal(l) == StartsWith(l, <<"0">>) /\ C26_AllDigits(l)

C26_WellFormedInternational(i) ==
  StartsWith(i, Plus972) /\ Len(i) > 4 /\ C26_AllDigits(Substring(i, 4))

\* the numbers in play: what callers send, the phones of the stored
\* accounts and the keys of otpStore
C26_Numbers ==
  PhoneInputs \cup {u.phone : u \in Range(users)} \cup DOMAIN otpStore

C26_NormalizationRoundTrips ==
  \A n \in C26_Numbers :
    /\ C26_WellFormedLocal(n) =>
         normalizeToLocalFormat(normalizePhoneNumber(n)) = n
    /\ C26_WellFormedInternational(n) =>
         normalizePhoneNumber(normalizeToLocalFormat(n)) = n

(***************************************************************************)
(* C27: every user record stored by a registration, whatever the request   *)
(* body, has a password digest or a googleId.                              *)
(***************************************************************************)
C27_EveryAccountHasCredential ==
  \A i \in 1..Len(users) :
    users[i].passwordHash # NullDigest \/ users[i].googleId # NoGoogleId

(***************************************************************************)
(* C28: verification against a null digest fails closed.  verifyPassword   *)
(* returns false for every password when the digest is null, and a         *)
(* loginWithEmail on an account that has no digest ends in a failure and   *)
(* never reaches the write of lastLoginAt.                                 *)
(***************************************************************************)
C28_NullDigestFailsClosed ==
  /\ \A p \in Passwords \cup {"", "secret2", UndefinedPassword} :
       verifyPassword(p, NullDigest) = FALSE
  /\ \A s \in Slots :
       (/\ req[s].op = "login"
        /\ req[s].user # NoUser
        /\ req[s].user.passwordHash = NullDigest)
         => /\ req[s].pc = "done"
            /\ ~req[s].result.success
  /\ \A i \in 1..Len(users) :
       users[i].passwordHash = NullDigest => users[i].lastLoginAt = "registration"

C28_Witness ==
  \E s \in Slots :
    /\ req[s].op = "login" /\ req[s].pc = "done"
    /\ req[s].user = GoogleUser
    /\ req[s].password = "secret1"
    /\ ~req[s].result.success
    /\ users[GoogleUser.id].lastLoginAt = "registration"

(***************************************************************************)
(* C29: executeCloudOperation turns every outcome into the envelope.  It   *)
(* returns the success envelope exactly when an invocation of the          *)
(* operation returned, and the failure envelope, with the mapped message   *)
(* of the error surfaced, exactly when the retry sequence ended with an    *)
(* error; while the sequence runs nothing has been returned.               *)
(***************************************************************************)
C29_UserMessages ==
  {"Network connection error. Please check your internet connection.",
   "Authentication error. Please log in again.",
   "Invalid data provided. Please check your input.",
   "Resource not found. It may have been deleted.",
   "Operation failed due to a conflict. Please try again.",
   "Request timed out. Please try again.",
   "An unexpected error occurred"}

C29_UniformEnvelope ==
  /\ retryPc = "returned" <=> envelope.success
  /\ retryPc = "returned" => envelope = SuccessEnvelope /\ calls >= 1
  /\ retryPc = "thrown" <=> (~envelope.success /\ envelope # NoEnvelope)
  /\ retryPc = "thrown" =>
       /\ surfaced = lastError
       /\ envelope.error \in C29_UserMessages
       /\ envelope.error = handleCloudError(surfaced).error
  /\ retryPc \in {"call", "sleep"} => envelope = NoEnvelope

C29_Witness ==
  /\ retryPc = "returned"
  /\ calls = 3
  /\ lastError.name = "NetworkError"
  /\ envelope.success

(***************************************************************************)
(* C30: the retry sequence terminates whatever the operation does.  It     *)
(* makes at most maxRetries + 1 invocations; every step it takes brings it *)
(* closer to its end and none is taken after an invocation has returned or *)
(* the sequence has thrown; it ends only by a return, a non-retryable      *)
(* error or the exhaustion of the attempts, and then with the last error;  *)
(* until then its next step is always possible, and the end is reached.    *)
(***************************************************************************)
C30_Done == retryPc \in {"returned", "thrown"}

C30_Remaining ==
  2 * (policy.maxRetries + 1 - calls) + (IF retryPc = "sleep" THEN 1 ELSE 0)

C30_RetryTerminates ==
  /\ [](calls <= policy.maxRetries + 1 /\ C30_Remaining >= 0)
  /\ [][~C30_Done /\ C30_Remaining' < C30_Remaining]_vars
  /\ [](retryPc = "thrown" =>
          /\ surfaced = lastError
          /\ isNonRetryableError(lastError) \/ calls = policy.maxRetries + 1)
  /\ [](C30_Done \/ ENABLED RetryNext)
  /\ <>C30_Done

C30_Witness ==
  /\ retryPc = "thrown"
  /\ policy.maxRetries = 2
  /\ calls = 3
  /\ Len(delays) = 2
  /\ ~isNonRetryableError(lastError)
  /\ lastError.name = "ConditionalCheckFailedException"

(***************************************************************************)
(* C31: a loginWithEmail that returns success has verified the supplied    *)
(* password against a digest of the current scheme that is not null, and   *)
(* the record store holds the lastLoginAt it wrote.                        *)
(***************************************************************************)
C31_LoginSucceeded(r) == r.op = "login" /\ r.pc = "done" /\ r.result.success

C31_LoginVerifiedAndRecorded ==
  \A s \in Slots :
    C31_LoginSucceeded(req[s]) =>
      /\ req[s].user.passwordHash # NullDigest
      /\ req[s].user.passwordHash.scheme = "bcrypt"
      /\ verifyPassword(req[s].password, req[s].user.passwordHash)
      /\ users[req[s].user.id].lastLoginAt = "login"

(***************************************************************************)
(* C32: no success envelope that carries user records carries a password   *)
(* digest: the user of a login, a read by id or a profile update, and      *)
(* every user of a search, lacks the field passwordHash.                   *)
(***************************************************************************)
C32_Carried(r) ==
  IF r.op = "getUsers" THEN r.result.users ELSE {r.result.user}

C32_NoDigestLeaves ==
  \A s \in Slots :
    (req[s].pc = "done" /\ req[s].result.success) =>
      \A u \in C32_Carried(req[s]) : "passwordHash" \notin DOMAIN u

(***************************************************************************)
(* C33: the one-time code store is keyed alike at issuance and at          *)
(* verification.  While the code that /send-otp issued for a local-format  *)
(* number p is fresh, /verify-otp accepts it when the number presented is  *)
(* p or the canonical form of p, and removes it; a verification that finds *)
(* no code under the number's key, as a repeated one does, returns false.  *)
(***************************************************************************)
C33_Issued(r) ==
  /\ r.op = "sendOtp"
  /\ r.userExists
  /\ StartsWith(r.phoneNumber, <<"0">>)
  /\ r.normalizedPhone \in DOMAIN otpStore
  /\ otpStore[r.normalizedPhone].code = r.code
  /\ otpStore[r.normalizedPhone].expiresAt = now + OtpTtl

C33_Presented(r) == {r.phoneNumber, normalizePhoneNumber(r.phoneNumber)}

C33_VerifyStep(s) == req[s] = Idle /\ req'[s].op = "verifyOtp"

C33_KeyingConsistent ==
  /\ [](\A t \in Slots :
          C33_Issued(req[t]) =>
            \A presented \in C33_Presented(req[t]) :
              LET key == normalizePhoneNumber(presented)
                  verdict == verifyOTP(key, req[t].code)
              IN /\ key = req[t].normalizedPhone
                 /\ verdict.valid
                 /\ key \notin DOMAIN verdict.store)
  /\ [][\A s, t \in Slots :
          (/\ C33_Issued(req[t])
           /\ C33_VerifyStep(s)
           /\ req'[s].phoneNumber \in C33_Presented(req[t])
           /\ req'[s].code = req[t].code) =>
            /\ req'[s].verified
            /\ req[t].normalizedPhone \notin DOMAIN otpStore']_vars
  /\ [][\A s \in Slots :
          (/\ C33_VerifyStep(s)
           /\ req'[s].status = 200
           /\ req'[s].normalizedPhone \notin DOMAIN otpStore) =>
            ~req'[s].verified]_vars

C33_Witness ==
  \E s, t \in Slots :
    /\ req[t].op = "sendOtp" /\ req[t].userExists
    /\ req[t].phoneNumber = LocalPhone
    /\ req[s].op = "verifyOtp" /\ req[s].verified
    /\ req[s].phoneNumber = LocalPhone
    /\ req[s].code = req[t].code
    /\ req[s].normalizedPhone \notin DOMAIN otpStore

(***************************************************************************)
(* C34: a stored passwordHash changes only through an authorised path: a   *)
(* changePassword that verified the current password against a digest that *)
(* is set, or a resetPassword that matched the live reset code.            *)
(***************************************************************************)
C34_Authorised(r, userId) ==
  \/ /\ r.op = "changePassword" /\ r.pc = "update"
     /\ r.userId = userId
     /\ r.user.passwordHash # NullDigest
     /\ verifyPassword(r.currentPassword, r.user.passwordHash)
  \/ /\ r.op = "resetPassword" /\ r.pc = "update"
     /\ r.userId = userId

C34_DigestChangesOnlyWhenAuthorised ==
  [][\A userId \in 1..Len(users) :
       (/\ userId <= Len(users')
        /\ users'[userId].passwordHash # users[userId].passwordHash) =>
         \E s \in Slots : C34_Authorised(req[s], userId) /\ req'[s].pc # "update"]_vars

(***************************************************************************)
(* C35: a resetPassword that is overtaken by a reissue does not succeed    *)
(* with the code it verified and does not take the new code away.  When a  *)
(* resetPassword completes while resetCodeStore holds, for its user, a     *)
(* code other than the one it verified, its update has not succeeded and   *)
(* the store is left as it is.                                             *)
(***************************************************************************)
C35_Superseded(r) ==
  /\ r.op = "resetPassword"
  /\ r.pc \in {"update", "finish"}
  /\ r.userId \in DOMAIN resetCodeStore
  /\ resetCodeStore[r.userId].code # r.resetCode

C35_ReissueSurvivesEarlierReset ==
  /\ [](\A s \in Slots :
          (C35_Superseded(req[s]) /\ req[s].pc = "finish") =>
            ~req[s].updateResult.success)
  /\ [][\A s \in Slots :
          (C35_Superseded(req[s]) /\ req[s].pc = "finish" /\ req'[s] = Idle) =>
            /\ ~req[s].updateResult.success
            /\ resetCodeStore' = resetCodeStore]_vars

C35_Witness ==
  \E s \in Slots :
    /\ C35_Superseded(req[s])
    /\ req[s].pc = "finish"
    /\ req[s].resetCode = "123456"
    /\ resetCodeStore[req[s].userId].code = "654321"

(***************************************************************************)
(* C36: registerWithEmail creates a record only after its email lookup     *)
(* succeeded and found nobody: a registration whose getUserByEmail failed  *)
(* returns a failure, and its creation step leaves the table as it is.     *)
(***************************************************************************)
C36_LookupFailed(r) == r.op = "register" /\ ~r.lookupOk

C36_FailedLookupCreatesNothing ==
  /\ [](\A s \in Slots :
          (C36_LookupFailed(req[s]) /\ req[s].pc = "done") =>
            ~req[s].result.success)
  /\ [][\A s \in Slots :
          (C36_LookupFailed(req[s]) /\ req[s].pc = "create" /\ req'[s].pc = "done") =>
            users' = users]_vars

(***************************************************************************)
(* C37: the update request that userService.updateUser builds assigns each *)
(* attribute at most once, for the updates of every caller: {lastLoginAt}  *)
(* from loginWithEmail, {passwordHash, updatedAt} from changePassword.     *)
(***************************************************************************)
C37_UpdatesOf(r) ==
  IF r.op = "login"
    THEN << <<"lastLoginAt", "login">> >>
    ELSE << <<"passwordHash", hashPassword(r.newPassword)>>,
            <<"updatedAt", "changePassword">> >>

C37_AssignedOnce(names) ==
  \A i, j \in 1..Len(names) : names[i] = names[j] => i = j

C37_SingleAssignmentPerAttribute ==
  \A s \in Slots :
    (req[s].op \in {"login", "changePassword"} /\ req[s].pc = "update") =>
      /\ C37_AssignedOnce(UpdateExpressionNames(C37_UpdatesOf(req[s])))
      /\ \A updated \in updateUser(req[s].user.id, C37_UpdatesOf(req[s])) :
           updated.result.error # handleCloudError(ValidationError).error

(***************************************************************************)
(* C38: requestPasswordReset puts the reset code in its reply exactly when *)
(* the code was not delivered by SMS (the user has no phone, SMS is not    *)
(* configured, or the send raised an error) and never when the send        *)
(* succeeded; in each case the store then holds, for the user, that code   *)
(* with expiresAt = now + 15 minutes.                                      *)
(***************************************************************************)
C38_Delivered(user, awsEnabled, sms) ==
  user.phone # NoPhone /\ awsEnabled /\ sms = "sent"

C38_Issuing(r) ==
  r.op = "forgotPassword" /\ r.found # 0 /\ r.result.success

C38_CodeDisclosedIffUndelivered ==
  /\ [](\A user \in Range(users), resetCode \in Codes,
           awsEnabled \in BOOLEAN, sms \in SmsOutcomes :
          user.passwordHash # NullDigest =>
            LET out == requestPasswordReset(user, resetCode, awsEnabled, sms)
            IN /\ out.result.success
               /\ ~C38_Delivered(user, awsEnabled, sms) <=>
                    out.result.resetCode = resetCode
               /\ C38_Delivered(user, awsEnabled, sms) =>
                    out.result.resetCode = ""
               /\ out.store[user.id].code = resetCode
               /\ out.store[user.id].expiresAt = now + ResetTtl)
  /\ [][\A s \in Slots :
          (req[s] = Idle /\ C38_Issuing(req'[s])) =>
            LET reply == req'[s].result
                stored == resetCodeStore'[req'[s].found]
            IN /\ stored.expiresAt = now + ResetTtl
               /\ stored.code \in Codes
               /\ reply.resetCode # "" => stored.code = reply.resetCode
               /\ ~req'[s].smsAttempted => reply.resetCode # ""
               /\ reply.resetCode = "" =>
                    /\ req'[s].smsAttempted
                    /\ reply.message = "Password reset code sent successfully"]_vars

C38_Witness ==
  \E s, t \in Slots :
    /\ C38_Issuing(req[s]) /\ C38_Issuing(req[t])
    /\ req[s].found = 2 /\ req[t].found = 2
    /\ req[s].result.resetCode = ""
    /\ req[t].result.resetCode = "654321"
    /\ req[t].smsAttempted
    /\ resetCodeStore[2].code = "654321"
    /\ resetCodeStore[2].expiresAt = now + ResetTtl
    /\ now > 0

(***************************************************************************)
(* C39: a listing is sold at most once.  Whatever the interleaving of      *)
(* concurrent purchaseGiftCard calls and of their retries, at most one     *)
(* call returns success, and it is the call of the listing's buyer; the    *)
(* listing's buyerId, once set, is never overwritten; at most one          *)
(* transaction item is written; and an invocation that meets a listing     *)
(* that is not 'available' changes neither table.                          *)
(***************************************************************************)
C39_Succeeded == {c \in Callers : purchase[c].pc = "done" /\ purchase[c].success}

C39_SoldAtMostOnce ==
  /\ [](/\ Cardinality(C39_Succeeded) <= 1
        /\ Cardinality(transactions) <= 1
        /\ \A c \in C39_Succeeded :
             /\ listing = [status |-> "sold", buyerId |-> BuyerOf(c)]
             /\ \E t \in transactions : t.call = c
        /\ \A t \in transactions :
             listing = [status |-> "sold", buyerId |-> t.buyerId])
  /\ [][/\ listing.buyerId # NoBuyer => listing' = listing
        /\ listing.status # "available" =>
             UNCHANGED <<listing, transactions>>]_vars

C39_Witness ==
  /\ listing = [status |-> "sold", buyerId |-> "b2"]
  /\ purchase[3].pc = "done" /\ purchase[3].success /\ purchase[3].attempt = 1
  /\ purchase[1].pc = "done" /\ ~purchase[1].success /\ purchase[1].attempt = 3
  /\ purchase[2].pc = "sleep"
  /\ Cardinality(transactions) = 1

====
